---- MODULE Spec2Model ----
(***************************************************************************)
(* Medium Level IL instruction model of python/mediumlevelil.py: the       *)
(* operand decoder, the opcode registry, the per-opcode instruction shapes *)
(* and the function container, over an engine whose storage (instruction   *)
(* records, operand lists, index translations) is part of the state.       *)
(***************************************************************************)
EXTENDS Integers, Sequences, FiniteSets, TLC

VARIABLES
  mlil,   \* the engine's storage, by function handle
  node,   \* the node the client decoded last, None before the first
  args,   \* the arguments of the call that decoded it
  out,    \* the last query: what was asked (q), of what (n), with what (m), the result (r)
  slot    \* a 64-bit operand slot value

vars == <<mlil, node, args, out, slot>>

(***************************************************************************)
(* Bounds of the model.                                                    *)
(***************************************************************************)
\* largest instruction index a caller passes
MaxInstrArg == 2
\* largest expression index a caller passes, besides the first invalid one
MaxExprArg == 2
\* number of instructions / expressions of the adjacent IL layers
MaxLayerCount == 2

(***************************************************************************)
(* Python values.  Every value is a record [t, v]: the tag t is the Python *)
(* type, v the payload.  A raised exception is the value Raise(name).      *)
(***************************************************************************)
None == [t |-> "None", v |-> 0]
Raise(e) == [t |-> "raise", v |-> e]
Raised(x) == x.t = "raise"
PyInt(i) == [t |-> "int", v |-> i]
PyFloat(fmt, bits) == [t |-> "float", v |-> <<fmt, bits>>]
PyList(s) == [t |-> "list", v |-> s]
PyDict(f) == [t |-> "dict", v |-> f]
PyBool(b) == [t |-> "bool", v |-> b]
Instr(n) == [t |-> "instr", v |-> n]
ILIntrinsic(i) == [t |-> "intrinsic", v |-> i]

\* variable.Variable.from_identifier: a Variable of the source function,
\* compared by (identifier, function)
Variable_from_identifier(identifier) == [t |-> "Variable", v |-> identifier]
\* the frozen dataclass SSAVariable(var, version)
SSAVariable(var, version) == [t |-> "SSAVariable", v |-> <<var.v, version>>]

IsVar(x) == x.t \in {"Variable", "SSAVariable"}

(***************************************************************************)
(* The opcodes of the registry, grouped by the shape they share.           *)
(***************************************************************************)
NoOperandOps == {"MLIL_NOP", "MLIL_NORET", "MLIL_BP", "MLIL_UNDEF", "MLIL_UNIMPL"}

UnaryOps ==
  {"MLIL_NEG", "MLIL_NOT", "MLIL_SX", "MLIL_ZX", "MLIL_LOW_PART", "MLIL_FSQRT",
   "MLIL_FNEG", "MLIL_FABS", "MLIL_FLOAT_TO_INT", "MLIL_INT_TO_FLOAT",
   "MLIL_FLOAT_CONV", "MLIL_ROUND_TO_INT", "MLIL_FLOOR", "MLIL_CEIL", "MLIL_FTRUNC"}

SrcExprOps == UnaryOps \cup {"MLIL_LOAD", "MLIL_BOOL_TO_INT", "MLIL_UNIMPL_MEM"}

BinaryOps ==
  {"MLIL_ADD", "MLIL_SUB", "MLIL_AND", "MLIL_OR", "MLIL_XOR", "MLIL_LSL", "MLIL_LSR",
   "MLIL_ASR", "MLIL_ROL", "MLIL_ROR", "MLIL_MUL", "MLIL_MULU_DP", "MLIL_MULS_DP",
   "MLIL_DIVU", "MLIL_DIVU_DP", "MLIL_DIVS", "MLIL_DIVS_DP", "MLIL_MODU",
   "MLIL_MODU_DP", "MLIL_MODS", "MLIL_MODS_DP", "MLIL_CMP_E", "MLIL_CMP_NE",
   "MLIL_CMP_SLT", "MLIL_CMP_ULT", "MLIL_CMP_SLE", "MLIL_CMP_ULE", "MLIL_CMP_SGE",
   "MLIL_CMP_UGE", "MLIL_CMP_SGT", "MLIL_CMP_UGT", "MLIL_TEST_BIT",
   "MLIL_ADD_OVERFLOW", "MLIL_FCMP_E", "MLIL_FCMP_NE", "MLIL_FCMP_LT",
   "MLIL_FCMP_LE", "MLIL_FCMP_GE", "MLIL_FCMP_GT", "MLIL_FCMP_O", "MLIL_FCMP_UO",
   "MLIL_FADD", "MLIL_FSUB", "MLIL_FMUL", "MLIL_FDIV"}

CarryOps == {"MLIL_ADC", "MLIL_SBB", "MLIL_RLC", "MLIL_RRC"}

ConstIntOps == {"MLIL_CONST", "MLIL_CONST_PTR", "MLIL_IMPORT"}

\* classes deriving from SetVar
SetVarOps ==
  {"MLIL_SET_VAR", "MLIL_SET_VAR_FIELD", "MLIL_SET_VAR_SPLIT", "MLIL_SET_VAR_SSA",
   "MLIL_SET_VAR_SSA_FIELD", "MLIL_SET_VAR_SPLIT_SSA", "MLIL_SET_VAR_ALIASED",
   "MLIL_SET_VAR_ALIASED_FIELD", "MLIL_VAR_PHI"}

\* classes deriving from Call (through Syscall and Tailcall as well)
CallOps ==
  {"MLIL_CALL", "MLIL_CALL_UNTYPED", "MLIL_CALL_SSA", "MLIL_CALL_UNTYPED_SSA",
   "MLIL_SYSCALL", "MLIL_SYSCALL_UNTYPED", "MLIL_SYSCALL_SSA",
   "MLIL_SYSCALL_UNTYPED_SSA", "MLIL_TAILCALL", "MLIL_TAILCALL_UNTYPED",
   "MLIL_TAILCALL_SSA", "MLIL_TAILCALL_UNTYPED_SSA"}

OtherOps ==
  {"MLIL_VAR", "MLIL_ADDRESS_OF", "MLIL_FLOAT_CONST", "MLIL_LOAD_STRUCT", "MLIL_STORE",
   "MLIL_VAR_FIELD", "MLIL_VAR_SPLIT", "MLIL_ADDRESS_OF_FIELD", "MLIL_EXTERN_PTR",
   "MLIL_JUMP", "MLIL_RET_HINT", "MLIL_CALL_OUTPUT", "MLIL_CALL_PARAM", "MLIL_RET",
   "MLIL_GOTO", "MLIL_FREE_VAR_SLOT", "MLIL_TRAP", "MLIL_FREE_VAR_SLOT_SSA",
   "MLIL_VAR_SSA", "MLIL_VAR_ALIASED", "MLIL_VAR_SSA_FIELD", "MLIL_VAR_ALIASED_FIELD",
   "MLIL_VAR_SPLIT_SSA", "MLIL_CALL_OUTPUT_SSA", "MLIL_CALL_PARAM_SSA",
   "MLIL_LOAD_SSA", "MLIL_MEM_PHI", "MLIL_JUMP_TO", "MLIL_INTRINSIC",
   "MLIL_INTRINSIC_SSA", "MLIL_LOAD_STRUCT_SSA", "MLIL_STORE_STRUCT", "MLIL_IF",
   "MLIL_STORE_SSA", "MLIL_STORE_STRUCT_SSA"}

\* the keys of the ILInstruction dictionary
ILInstruction ==
  NoOperandOps \cup SrcExprOps \cup BinaryOps \cup CarryOps \cup ConstIntOps
    \cup SetVarOps \cup CallOps \cup OtherOps

(***************************************************************************)
(* The operand layout of every opcode as the registry records it: the      *)
(* sequence of <<operand name, operand type>> the engine stores, in slot   *)
(* order.                                                                   *)
(***************************************************************************)
Schema(op) ==
  CASE op \in NoOperandOps -> <<>>
    [] op \in SrcExprOps -> << <<"src", "expr">> >>
    [] op \in {"MLIL_VAR", "MLIL_ADDRESS_OF"} -> << <<"src", "var">> >>
    [] op \in ConstIntOps -> << <<"constant", "int">> >>
    [] op = "MLIL_FLOAT_CONST" -> << <<"constant", "float">> >>
    [] op = "MLIL_SET_VAR" -> << <<"dest", "var">>, <<"src", "expr">> >>
    [] op = "MLIL_LOAD_STRUCT" -> << <<"src", "expr">>, <<"offset", "int">> >>
    [] op = "MLIL_STORE" -> << <<"dest", "expr">>, <<"src", "expr">> >>
    [] op \in {"MLIL_VAR_FIELD", "MLIL_ADDRESS_OF_FIELD"} ->
         << <<"src", "var">>, <<"offset", "int">> >>
    [] op = "MLIL_VAR_SPLIT" -> << <<"high", "var">>, <<"low", "var">> >>
    [] op = "MLIL_EXTERN_PTR" -> << <<"constant", "int">>, <<"offset", "int">> >>
    [] op \in BinaryOps -> << <<"left", "expr">>, <<"right", "expr">> >>
    [] op \in {"MLIL_JUMP", "MLIL_RET_HINT"} -> << <<"dest", "expr">> >>
    [] op = "MLIL_CALL_OUTPUT" -> << <<"dest", "var_list">> >>
    [] op = "MLIL_CALL_PARAM" -> << <<"src", "var_list">> >>
    [] op = "MLIL_RET" -> << <<"src", "expr_list">> >>
    [] op = "MLIL_GOTO" -> << <<"dest", "int">> >>
    [] op = "MLIL_FREE_VAR_SLOT" -> << <<"dest", "var">> >>
    [] op = "MLIL_TRAP" -> << <<"vector", "int">> >>
    [] op = "MLIL_FREE_VAR_SLOT_SSA" -> << <<"prev", "var_ssa_dest_and_src">> >>
    [] op \in {"MLIL_VAR_SSA", "MLIL_VAR_ALIASED"} -> << <<"src", "var_ssa">> >>
    [] op = "MLIL_SYSCALL" -> << <<"output", "var_list">>, <<"params", "expr_list">> >>
    [] op \in {"MLIL_VAR_SSA_FIELD", "MLIL_VAR_ALIASED_FIELD"} ->
         << <<"src", "var_ssa">>, <<"offset", "int">> >>
    [] op = "MLIL_VAR_SPLIT_SSA" -> << <<"high", "var_ssa">>, <<"low", "var_ssa">> >>
    [] op = "MLIL_CALL_OUTPUT_SSA" ->
         << <<"dest_memory", "int">>, <<"dest", "var_ssa_list">> >>
    [] op = "MLIL_CALL_PARAM_SSA" ->
         << <<"src_memory", "int">>, <<"src", "var_ssa_list">> >>
    [] op = "MLIL_LOAD_SSA" -> << <<"src", "expr">>, <<"src_memory", "int">> >>
    [] op = "MLIL_VAR_PHI" -> << <<"dest", "var_ssa">>, <<"src", "var_ssa_list">> >>
    [] op = "MLIL_MEM_PHI" -> << <<"dest_memory", "int">>, <<"src_memory", "int_list">> >>
    [] op = "MLIL_SET_VAR_SSA" -> << <<"dest", "var_ssa">>, <<"src", "expr">> >>
    [] op = "MLIL_JUMP_TO" -> << <<"dest", "expr">>, <<"targets", "target_map">> >>
    [] op = "MLIL_SET_VAR_ALIASED" ->
         << <<"prev", "var_ssa_dest_and_src">>, <<"src", "expr">> >>
    [] op \in {"MLIL_SYSCALL_UNTYPED", "MLIL_SYSCALL_UNTYPED_SSA"} ->
         << <<"output", "expr">>, <<"params", "expr">>, <<"stack", "expr">> >>
    [] op \in {"MLIL_CALL", "MLIL_TAILCALL"} ->
         << <<"output", "var_list">>, <<"dest", "expr">>, <<"params", "expr_list">> >>
    [] op = "MLIL_INTRINSIC" ->
         << <<"output", "var_list">>, <<"intrinsic", "intrinsic">>,
            <<"params", "expr_list">> >>
    [] op = "MLIL_INTRINSIC_SSA" ->
         << <<"output", "var_ssa_list">>, <<"intrinsic", "intrinsic">>,
            <<"params", "expr_list">> >>
    [] op \in {"MLIL_SET_VAR_SSA_FIELD", "MLIL_SET_VAR_ALIASED_FIELD"} ->
         << <<"prev", "var_ssa_dest_and_src">>, <<"offset", "int">>, <<"src", "expr">> >>
    [] op = "MLIL_SET_VAR_SPLIT_SSA" ->
         << <<"high", "var_ssa">>, <<"low", "var_ssa">>, <<"src", "expr">> >>
    [] op = "MLIL_SYSCALL_SSA" ->
         << <<"output", "expr">>, <<"params", "expr_list">>, <<"src_memory", "int">> >>
    [] op = "MLIL_LOAD_STRUCT_SSA" ->
         << <<"src", "expr">>, <<"offset", "int">>, <<"src_memory", "int">> >>
    [] op = "MLIL_SET_VAR_FIELD" ->
         << <<"dest", "var">>, <<"offset", "int">>, <<"src", "expr">> >>
    [] op = "MLIL_SET_VAR_SPLIT" ->
         << <<"high", "var">>, <<"low", "var">>, <<"src", "expr">> >>
    [] op = "MLIL_STORE_STRUCT" ->
         << <<"dest", "expr">>, <<"offset", "int">>, <<"src", "expr">> >>
    [] op \in CarryOps -> << <<"left", "expr">>, <<"right", "expr">>, <<"carry", "expr">> >>
    [] op \in {"MLIL_CALL_UNTYPED", "MLIL_TAILCALL_UNTYPED", "MLIL_CALL_UNTYPED_SSA",
               "MLIL_TAILCALL_UNTYPED_SSA"} ->
         << <<"output", "expr">>, <<"dest", "expr">>, <<"params", "expr">>,
            <<"stack", "expr">> >>
    [] op \in {"MLIL_CALL_SSA", "MLIL_TAILCALL_SSA"} ->
         << <<"output", "expr">>, <<"dest", "expr">>, <<"params", "expr_list">>,
            <<"src_memory", "int">> >>
    [] op = "MLIL_IF" -> << <<"condition", "expr">>, <<"true", "int">>, <<"false", "int">> >>
    [] op = "MLIL_STORE_SSA" ->
         << <<"dest", "expr">>, <<"dest_memory", "int">>, <<"src_memory", "int">>,
            <<"src", "expr">> >>
    [] op = "MLIL_STORE_STRUCT_SSA" ->
         << <<"dest", "expr">>, <<"offset", "int">>, <<"dest_memory", "int">>,
            <<"src_memory", "int">>, <<"src", "expr">> >>

\* number of operand slots an operand of the given type occupies
SlotWidth(type) ==
  CASE type \in {"expr", "var", "int", "float", "intrinsic"} -> 1
    [] type \in {"var_ssa", "var_list", "var_ssa_list", "expr_list", "int_list",
                 "target_map"} -> 2
    [] type = "var_ssa_dest_and_src" -> 3

RECURSIVE SchemaSlot(_, _)
\* first slot of the k-th operand of a schema
SchemaSlot(schema, k) ==
  IF k = 1 THEN 0 ELSE SchemaSlot(schema, k - 1) + SlotWidth(schema[k - 1][2])

(***************************************************************************)
(* The operand properties of every instruction class, in operand_names     *)
(* order.  A property is the getter the class calls and its arguments;     *)
(* "dest_of" and "src_of" are the properties that decode a sub-expression, *)
(* assert its class and return its dest or src.                            *)
(***************************************************************************)
P(name, get, a, b) == [name |-> name, get |-> get, a |-> a, b |-> b, cls |-> ""]
Via(name, get, a, cls) == [name |-> name, get |-> get, a |-> a, b |-> 0, cls |-> cls]

Properties(op) ==
  CASE op \in NoOperandOps -> <<>>
    [] op \in SrcExprOps -> <<P("src", "expr", 0, 0)>>
    [] op \in {"MLIL_VAR", "MLIL_ADDRESS_OF"} -> <<P("src", "var", 0, 0)>>
    [] op \in ConstIntOps -> <<P("constant", "int", 0, 0)>>
    [] op = "MLIL_FLOAT_CONST" -> <<P("constant", "float", 0, 0)>>
    [] op \in {"MLIL_JUMP", "MLIL_RET_HINT"} -> <<P("dest", "expr", 0, 0)>>
    [] op = "MLIL_CALL_OUTPUT" -> <<P("dest", "var_list", 0, 1)>>
    [] op = "MLIL_CALL_PARAM" -> <<P("src", "var_list", 0, 1)>>
    [] op = "MLIL_RET" -> <<P("src", "expr_list", 0, 1)>>
    [] op = "MLIL_GOTO" -> <<P("dest", "int", 0, 0)>>
    [] op = "MLIL_FREE_VAR_SLOT" -> <<P("dest", "var", 0, 0)>>
    [] op = "MLIL_TRAP" -> <<P("vector", "int", 0, 0)>>
    [] op = "MLIL_FREE_VAR_SLOT_SSA" ->
         <<P("dest", "var_ssa_dest_and_src", 0, 1), P("prev", "var_ssa_dest_and_src", 0, 2)>>
    [] op \in {"MLIL_VAR_SSA", "MLIL_VAR_ALIASED"} -> <<P("src", "var_ssa", 0, 1)>>
    [] op = "MLIL_SET_VAR" -> <<P("dest", "var", 0, 0), P("src", "expr", 1, 0)>>
    [] op = "MLIL_LOAD_STRUCT" -> <<P("src", "expr", 0, 0), P("offset", "int", 1, 0)>>
    [] op = "MLIL_STORE" -> <<P("dest", "expr", 0, 0), P("src", "expr", 1, 0)>>
    [] op \in {"MLIL_VAR_FIELD", "MLIL_ADDRESS_OF_FIELD"} ->
         <<P("src", "var", 0, 0), P("offset", "int", 1, 0)>>
    [] op = "MLIL_VAR_SPLIT" -> <<P("high", "var", 0, 0), P("low", "var", 1, 0)>>
    [] op = "MLIL_EXTERN_PTR" -> <<P("constant", "int", 0, 0), P("offset", "int", 1, 0)>>
    [] op \in BinaryOps -> <<P("left", "expr", 0, 0), P("right", "expr", 1, 0)>>
    [] op \in CarryOps ->
         <<P("left", "expr", 0, 0), P("right", "expr", 1, 0), P("carry", "expr", 2, 0)>>
    [] op = "MLIL_SYSCALL" ->
         <<P("output", "var_list", 0, 1), P("params", "expr_list", 2, 3)>>
    [] op \in {"MLIL_VAR_SSA_FIELD", "MLIL_VAR_ALIASED_FIELD"} ->
         <<P("src", "var_ssa", 0, 1), P("offset", "int", 2, 0)>>
    [] op = "MLIL_VAR_SPLIT_SSA" -> <<P("high", "var_ssa", 0, 1), P("low", "var_ssa", 2, 3)>>
    [] op = "MLIL_CALL_OUTPUT_SSA" ->
         <<P("dest_memory", "int", 0, 0), P("dest", "var_ssa_list", 1, 2)>>
    [] op = "MLIL_CALL_PARAM_SSA" ->
         <<P("src_memory", "int", 0, 0), P("src", "var_ssa_list", 1, 2)>>
    [] op = "MLIL_LOAD_SSA" -> <<P("src", "expr", 0, 0), P("src_memory", "int", 1, 0)>>
    [] op = "MLIL_VAR_PHI" -> <<P("dest", "var_ssa", 0, 1), P("src", "var_ssa_list", 2, 3)>>
    [] op = "MLIL_MEM_PHI" ->
         <<P("dest_memory", "int", 0, 0), P("src_memory", "int_list", 1, 0)>>
    [] op = "MLIL_SET_VAR_SSA" -> <<P("dest", "var_ssa", 0, 1), P("src", "expr", 2, 0)>>
    [] op = "MLIL_JUMP_TO" -> <<P("dest", "expr", 0, 0), P("targets", "target_map", 1, 2)>>
    [] op = "MLIL_SET_VAR_ALIASED" ->
         <<P("dest", "var_ssa_dest_and_src", 0, 1), P("prev", "var_ssa_dest_and_src", 0, 2),
           P("src", "expr", 3, 0)>>
    [] op = "MLIL_SYSCALL_UNTYPED" ->
         <<Via("output", "dest_of", 0, "MLIL_CALL_OUTPUT"),
           Via("params", "src_of", 2, "MLIL_CALL_PARAM"), P("stack", "expr", 2, 0)>>
    [] op = "MLIL_INTRINSIC" ->
         <<P("output", "var_list", 0, 1), P("intrinsic", "intrinsic", 2, 0),
           P("params", "expr_list", 3, 4)>>
    [] op = "MLIL_INTRINSIC_SSA" ->
         <<P("output", "var_ssa_list", 0, 1), P("intrinsic", "intrinsic", 2, 0),
           P("params", "expr_list", 3, 4)>>
    [] op \in {"MLIL_SET_VAR_SSA_FIELD", "MLIL_SET_VAR_ALIASED_FIELD"} ->
         <<P("dest", "var_ssa_dest_and_src", 0, 1), P("prev", "var_ssa_dest_and_src", 0, 2),
           P("offset", "int", 3, 0), P("src", "expr", 4, 0)>>
    [] op = "MLIL_SET_VAR_SPLIT_SSA" ->
         <<P("high", "var_ssa", 0, 1), P("low", "var_ssa", 2, 3), P("src", "expr", 4, 0)>>
    [] op = "MLIL_SYSCALL_SSA" ->
         <<Via("output", "dest_of", 0, "MLIL_CALL_OUTPUT_SSA"),
           P("params", "expr_list", 1, 2), P("src_memory", "int", 3, 0)>>
    [] op = "MLIL_SYSCALL_UNTYPED_SSA" ->
         <<Via("output", "dest_of", 0, "MLIL_CALL_OUTPUT_SSA"),
           Via("params", "src_of", 1, "MLIL_CALL_PARAM_SSA"), P("stack", "expr", 2, 0)>>
    [] op = "MLIL_LOAD_STRUCT_SSA" ->
         <<P("src", "expr", 0, 0), P("offset", "int", 1, 0), P("src_memory", "int", 2, 0)>>
    [] op = "MLIL_SET_VAR_FIELD" ->
         <<P("dest", "var", 0, 0), P("offset", "int", 1, 0), P("src", "expr", 2, 0)>>
    [] op = "MLIL_SET_VAR_SPLIT" ->
         <<P("high", "var", 0, 0), P("low", "var", 1, 0), P("src", "expr", 2, 0)>>
    [] op = "MLIL_STORE_STRUCT" ->
         <<P("dest", "expr", 0, 0), P("offset", "int", 1, 0), P("src", "expr", 2, 0)>>
    [] op \in {"MLIL_CALL", "MLIL_TAILCALL"} ->
         <<P("output", "var_list", 0, 1), P("dest", "expr", 2, 0),
           P("params", "expr_list", 3, 4)>>
    [] op = "MLIL_IF" ->
         <<P("condition", "expr", 0, 0), P("true", "int", 1, 0), P("false", "int", 2, 0)>>
    [] op \in {"MLIL_CALL_UNTYPED", "MLIL_TAILCALL_UNTYPED"} ->
         <<Via("output", "dest_of", 0, "MLIL_CALL_OUTPUT"), P("dest", "expr", 1, 0),
           Via("params", "src_of", 2, "MLIL_CALL_PARAM"), P("stack", "expr", 3, 0)>>
    [] op \in {"MLIL_CALL_SSA", "MLIL_TAILCALL_SSA"} ->
         <<Via("output", "dest_of", 0, "MLIL_CALL_OUTPUT_SSA"), P("dest", "expr", 1, 0),
           P("params", "expr_list", 2, 3), P("src_memory", "int", 4, 0)>>
    [] op = "MLIL_CALL_UNTYPED_SSA" ->
         <<Via("output", "dest_of", 0, "MLIL_CALL_OUTPUT_SSA"), P("dest", "expr", 1, 0),
           Via("params", "src_of", 2, "MLIL_CALL_PARAM_SSA"), P("stack", "expr", 3, 0)>>
    [] op = "MLIL_TAILCALL_UNTYPED_SSA" ->
         <<Via("output", "dest_of", 0, "MLIL_CALL_OUTPUT_SSA"), P("dest", "expr", 1, 0),
           P("params", "expr", 2, 0), P("stack", "expr", 3, 0)>>
    [] op = "MLIL_STORE_SSA" ->
         <<P("dest", "expr", 0, 0), P("dest_memory", "int", 1, 0),
           P("src_memory", "int", 2, 0), P("src", "expr", 3, 0)>>
    [] op = "MLIL_STORE_STRUCT_SSA" ->
         <<P("dest", "expr", 0, 0), P("offset", "int", 1, 0), P("dest_memory", "int", 2, 0),
           P("src_memory", "int", 3, 0), P("src", "expr", 4, 0)>>

\* the operand_names class attribute
operand_names(op) == [k \in 1..Len(Properties(op)) |-> Properties(op)[k].name]

(***************************************************************************)
(* 64-bit operand slots.  A slot value is four 16-bit limbs, least         *)
(* significant first; a Python integer is a sign and a magnitude in limbs. *)
(***************************************************************************)
LimbBase == 2^16
HalfLimb == 2^15

\* the slot holding a small non-negative number
U64(n) == <<n % LimbBase, (n \div LimbBase) % LimbBase, 0, 0>>

RECURSIVE LimbsLess(_, _)
\* a < b, comparing from the most significant limb
LimbsLess(a, b) ==
  IF a = <<>> THEN FALSE
  ELSE IF a[Len(a)] # b[Len(b)] THEN a[Len(a)] < b[Len(b)]
  ELSE LimbsLess(SubSeq(a, 1, Len(a) - 1), SubSeq(b, 1, Len(b) - 1))

RECURSIVE LimbsSub(_, _, _)
\* a - b - borrow for a >= b, limb by limb
LimbsSub(a, b, borrow) ==
  IF a = <<>> THEN <<>>
  ELSE LET d == Head(a) - Head(b) - borrow
       IN  <<d % LimbBase>> \o LimbsSub(Tail(a), Tail(b), IF d < 0 THEN 1 ELSE 0)

\* Python's a - b on non-negative integers
PySub(a, b) ==
  IF LimbsLess(a, b) THEN [neg |-> TRUE, mag |-> LimbsSub(b, a, 0)]
  ELSE [neg |-> FALSE, mag |-> LimbsSub(a, b, 0)]

\* value & ((1 << 63) - 1)
AndLow63(value) == <<value[1], value[2], value[3], value[4] % HalfLimb>>
\* value & (1 << 63)
AndBit63(value) == <<0, 0, 0, value[4] - (value[4] % HalfLimb)>>

\* wrong mask: clears bit 62 instead of keeping it apart from the sign bit
get_int_value_mask62(value) ==
  PySub(<<value[1], value[2], value[3], value[4] % (HalfLimb \div 2)>>, AndBit63(value))

\* the expression get_int returns for a slot value
get_int_value(value) == PySub(AndLow63(value), AndBit63(value))

\* a Python integer of at most 32 bits as a number
SmallInt(x) == (IF x.neg THEN -1 ELSE 1) * (x.mag[1] + LimbBase * x.mag[2])

(***************************************************************************)
(* The engine (core) side: the storage of each IL function by handle.      *)
(*   mlil[h].exprs    the instruction records, by expression index         *)
(*   mlil[h].instrs   the root expression index of each instruction        *)
(*   mlil[h].ssa, .non_ssa   handle of the paired form, 0 when absent      *)
(*   mlil[h].llil, .hlil     the adjacent layers                           *)
(* A record holds, besides the five BNMediumLevelILInstruction fields, its *)
(* operand lists by slot and the instruction that owns the expression.     *)
(***************************************************************************)
ExprCount(h) == Len(mlil[h].exprs)

BNGetMediumLevelILByIndex(h, expr_index) ==
  IF h \in DOMAIN mlil /\ expr_index \in 0..(ExprCount(h) - 1)
  THEN mlil[h].exprs[expr_index + 1] ELSE None

BNGetMediumLevelILInstructionForExpr(h, expr_index) ==
  mlil[h].exprs[expr_index + 1].owner

BNGetMediumLevelILInstructionCount(h) == Len(mlil[h].instrs)

BNGetMediumLevelILIndexForInstruction(h, i) == mlil[h].instrs[i + 1]

\* the operand list stored for a slot of an expression, None without one
BNMediumLevelILGetOperandList(h, expr_index, operand_index) ==
  LET have == {p \in mlil[h].exprs[expr_index + 1].lists : p[1] = operand_index}
  IN  IF have = {} THEN None ELSE PyList((CHOOSE p \in have : TRUE)[2])

\* CoreMediumLevelILInstruction.from_BNMediumLevelILInstruction
from_BNMediumLevelILInstruction(inst) ==
  [operation |-> inst.operation, source_operand |-> inst.source_operand,
   size |-> inst.size, operands |-> inst.operands, address |-> inst.address]

(***************************************************************************)
(* MediumLevelILInstruction.create and the operand decoders.  An optional  *)
(* instruction index is <<>> for None and <<i>> for i.                     *)
(***************************************************************************)
create(h, expr_index, instr_index) ==
  LET inst == BNGetMediumLevelILByIndex(h, expr_index)
  IN  IF inst = None THEN Raise("AssertionError")
      ELSE LET ii == IF instr_index = <<>>
                     THEN <<BNGetMediumLevelILInstructionForExpr(h, expr_index)>>
                     ELSE instr_index
               instr == from_BNMediumLevelILInstruction(inst)
           IN  IF instr.operation \notin ILInstruction THEN Raise("KeyError")
               ELSE Instr([function |-> h, expr_index |-> expr_index,
                           instr |-> instr, instr_index |-> ii])

Operand(n, operand_index) == n.instr.operands[operand_index + 1]

get_int(n, operand_index) == PyInt(SmallInt(get_int_value(U64(Operand(n, operand_index)))))

get_float(n, operand_index) ==
  IF n.instr.size = 4 THEN PyFloat("binary32", Operand(n, operand_index))
  ELSE IF n.instr.size = 8 THEN PyFloat("binary64", Operand(n, operand_index))
  ELSE PyFloat("float", Operand(n, operand_index))

get_expr(n, operand_index) == create(n.function, Operand(n, operand_index), <<>>)

get_intrinsic(n, operand_index) == ILIntrinsic(Operand(n, operand_index))

get_var(n, operand_index) == Variable_from_identifier(Operand(n, operand_index))

get_var_ssa(n, operand_index1, operand_index2) ==
  SSAVariable(Variable_from_identifier(Operand(n, operand_index1)),
              Operand(n, operand_index2))

get_var_ssa_dest_and_src(n, operand_index1, operand_index2) ==
  SSAVariable(Variable_from_identifier(Operand(n, operand_index1)),
              Operand(n, operand_index2))

get_int_list(n, operand_index) ==
  LET operand_list == BNMediumLevelILGetOperandList(n.function, n.expr_index, operand_index)
  IN  IF operand_list = None THEN Raise("AssertionError")
      ELSE PyList([j \in 1..Len(operand_list.v) |-> PyInt(operand_list.v[j])])

get_var_list(n, operand_index1, operand_index2) ==
  LET operand_list == BNMediumLevelILGetOperandList(n.function, n.expr_index, operand_index1)
  IN  IF operand_list = None THEN Raise("AssertionError")
      ELSE PyList([j \in 1..Len(operand_list.v) |->
                     Variable_from_identifier(operand_list.v[j])])

get_var_ssa_list(n, operand_index1, operand_index2) ==
  LET operand_list == BNMediumLevelILGetOperandList(n.function, n.expr_index, operand_index1)
  IN  IF operand_list = None THEN Raise("AssertionError")
      ELSE PyList([j \in 1..(Len(operand_list.v) \div 2) |->
                     SSAVariable(Variable_from_identifier(operand_list.v[2 * j - 1]),
                                 operand_list.v[2 * j])])

\* the first raised exception among the elements, else the list
ListOrRaise(s) ==
  IF \E j \in 1..Len(s) : Raised(s[j])
  THEN s[CHOOSE j \in 1..Len(s) : Raised(s[j]) /\ \A k \in 1..(j - 1) : ~Raised(s[k])]
  ELSE PyList(s)

get_expr_list(n, operand_index1, operand_index2) ==
  LET operand_list == BNMediumLevelILGetOperandList(n.function, n.expr_index, operand_index1)
  IN  IF operand_list = None THEN Raise("AssertionError")
      ELSE ListOrRaise([j \in 1..Len(operand_list.v) |->
                          create(n.function, operand_list.v[j], <<>>)])

RECURSIVE TargetMap(_, _)
\* the dictionary after the first count pairs were stored, later keys overwriting
TargetMap(l, count) ==
  IF count = 0 THEN <<>>
  ELSE LET d == TargetMap(l, count - 1)
           key == l[2 * count - 1]
           target == l[2 * count]
       IN  [k \in (DOMAIN d) \cup {key} |-> IF k = key THEN target ELSE d[k]]

get_target_map(n, operand_index1, operand_index2) ==
  LET operand_list == BNMediumLevelILGetOperandList(n.function, n.expr_index, operand_index1)
  IN  IF operand_list = None THEN Raise("AssertionError")
      ELSE PyDict(TargetMap(operand_list.v, Len(operand_list.v) \div 2))

(***************************************************************************)
(* Properties of a node: self.<name>, evaluated through the class table.   *)
(***************************************************************************)
\* the property of the node's class with the given name (the class has it)
Prop(op, name) ==
  Properties(op)[CHOOSE k \in 1..Len(Properties(op)) : Properties(op)[k].name = name]

\* a property that calls one decoder on the node's own slots
Decode(n, p) ==
  CASE p.get = "expr" -> get_expr(n, p.a)
    [] p.get = "int" -> get_int(n, p.a)
    [] p.get = "float" -> get_float(n, p.a)
    [] p.get = "var" -> get_var(n, p.a)
    [] p.get = "intrinsic" -> get_intrinsic(n, p.a)
    [] p.get = "var_ssa" -> get_var_ssa(n, p.a, p.b)
    [] p.get = "var_ssa_dest_and_src" -> get_var_ssa_dest_and_src(n, p.a, p.b)
    [] p.get = "int_list" -> get_int_list(n, p.a)
    [] p.get = "var_list" -> get_var_list(n, p.a, p.b)
    [] p.get = "var_ssa_list" -> get_var_ssa_list(n, p.a, p.b)
    [] p.get = "expr_list" -> get_expr_list(n, p.a, p.b)
    [] p.get = "target_map" -> get_target_map(n, p.a, p.b)

\* self.<name>: "dest_of"/"src_of" decode the sub-expression in slot a, assert
\* that it is an instance of cls and return its dest/src
GetAttr(n, name) ==
  LET p == Prop(n.instr.operation, name)
  IN  IF p.get \in {"dest_of", "src_of"}
      THEN LET inst == get_expr(n, p.a)
           IN  IF Raised(inst) THEN inst
               ELSE IF inst.v.instr.operation # p.cls THEN Raise("AssertionError")
               ELSE Decode(inst.v, Prop(p.cls, IF p.get = "dest_of" THEN "dest" ELSE "src"))
      ELSE Decode(n, p)

\* MediumLevelILInstruction.operands, iterated to the end: every named operand
\* in order, or the exception the first failing property raises
operands(n) ==
  LET names == operand_names(n.instr.operation)
  IN  ListOrRaise([k \in 1..Len(names) |-> GetAttr(n, names[k])])

(***************************************************************************)
(* vars_read and vars_written, by class.                                   *)
(***************************************************************************)
RECURSIVE vars_read(_)
RECURSIVE ReadsOf(_, _)

\* the list built by a loop over items that appends a variable and extends by
\* the vars_read of a sub-expression; other items are skipped, or fail the
\* assertion when strict holds
ReadsOf(items, strict) ==
  IF items = <<>> THEN PyList(<<>>)
  ELSE LET x == Head(items)
           first == IF IsVar(x) THEN PyList(<<x>>)
                    ELSE IF x.t = "instr" THEN vars_read(x.v)
                    ELSE IF strict THEN Raise("AssertionError")
                    ELSE PyList(<<>>)
       IN  IF Raised(first) THEN first
           ELSE LET rest == ReadsOf(Tail(items), strict)
                IN  IF Raised(rest) THEN rest ELSE PyList(first.v \o rest.v)

\* MediumLevelILInstruction.vars_read
Default_vars_read(n) ==
  LET ops == operands(n)
  IN  IF Raised(ops) THEN ops ELSE ReadsOf(ops.v, FALSE)

\* SetVar.vars_read
SetVar_vars_read(n) ==
  LET src == GetAttr(n, "src")
  IN  IF Raised(src) THEN src
      ELSE IF src.t = "instr" THEN vars_read(src.v)
      ELSE IF \E j \in 1..Len(src.v) : ~IsVar(src.v[j]) THEN Raise("AssertionError")
      ELSE PyList(src.v)

\* MediumLevelILSet_var_ssa_field.vars_read, MediumLevelILSet_var_aliased_field.vars_read
Set_var_field_vars_read(n) ==
  LET src == GetAttr(n, "src")
  IN  IF Raised(src) THEN src
      ELSE LET r == vars_read(src.v)
           IN  IF Raised(r) THEN r ELSE PyList(<<GetAttr(n, "prev")>> \o r.v)

\* Call.vars_read
Call_vars_read(n) ==
  LET params == GetAttr(n, "params")
  IN  IF Raised(params) THEN params
      ELSE IF params.t # "list" THEN Raise("TypeError")
      ELSE ReadsOf(params.v, TRUE)

vars_read(n) ==
  LET op == n.instr.operation
  IN  CASE op \in {"MLIL_SET_VAR_SSA_FIELD", "MLIL_SET_VAR_ALIASED_FIELD"} ->
             Set_var_field_vars_read(n)
        [] op \in {"MLIL_INTRINSIC", "MLIL_INTRINSIC_SSA"} -> PyList(<<>>)
        [] op \in SetVarOps \ {"MLIL_SET_VAR_SSA_FIELD", "MLIL_SET_VAR_ALIASED_FIELD"} ->
             SetVar_vars_read(n)
        [] op \in CallOps -> Call_vars_read(n)
        [] OTHER -> Default_vars_read(n)

\* reports the variables of the source with the destination
SetVar_vars_written_with_src(n) ==
  LET d == GetAttr(n, "dest")
      r == SetVar_vars_read(n)
  IN  IF Raised(d) THEN d ELSE IF Raised(r) THEN r
      ELSE PyList((IF d.t = "list" THEN d.v ELSE <<d>>) \o r.v)

\* SetVar.vars_written
SetVar_vars_written(n) ==
  LET d == GetAttr(n, "dest")
  IN  IF Raised(d) THEN d ELSE IF d.t = "list" THEN d ELSE PyList(<<d>>)

\* MediumLevelILSet_var_split.vars_written, MediumLevelILSet_var_split_ssa.vars_written
Set_var_split_vars_written(n) == ListOrRaise(<<GetAttr(n, "high"), GetAttr(n, "low")>>)

\* Call.vars_written
Call_vars_written(n) == GetAttr(n, "output")

vars_written(n) ==
  LET op == n.instr.operation
  IN  CASE op \in {"MLIL_SET_VAR_SPLIT", "MLIL_SET_VAR_SPLIT_SSA"} ->
             Set_var_split_vars_written(n)
        [] op \in {"MLIL_INTRINSIC", "MLIL_INTRINSIC_SSA"} -> PyList(<<>>)
        [] op \in SetVarOps \ {"MLIL_SET_VAR_SPLIT", "MLIL_SET_VAR_SPLIT_SSA"} ->
             SetVar_vars_written(n)
        [] op \in CallOps -> Call_vars_written(n)
        [] op \in {"MLIL_CALL_OUTPUT", "MLIL_CALL_OUTPUT_SSA"} -> GetAttr(n, "dest")
        [] OTHER -> PyList(<<>>)

(***************************************************************************)
(* Equality of nodes.  Every class of the registry is declared with        *)
(* @dataclass(frozen=True, repr=False): the decorator gives the class the  *)
(* generated __eq__, which compares the classes and then the field tuples  *)
(* (function, expr_index, instr, instr_index); the __eq__ written in       *)
(* MediumLevelILInstruction stays the method of that base class alone.     *)
(***************************************************************************)
\* MediumLevelILFunction.__eq__: the same engine function
Function_eq(f, g) == f = g

\* the comparison of two distinct objects whose class defines no __eq__
Identity_eq(a, b) == FALSE

\* the __eq__ generated for the registry's classes, applied to two distinct
\* node objects; classes that differ answer NotImplemented on both sides and
\* Python falls back to identity
Dataclass_eq(a, b) ==
  IF a.instr.operation = b.instr.operation
  THEN /\ Function_eq(a.function, b.function)
       /\ a.expr_index = b.expr_index
       /\ a.instr = b.instr
       /\ a.instr_index = b.instr_index
  ELSE FALSE

(***************************************************************************)
(* MediumLevelILFunction: indexing.                                        *)
(***************************************************************************)
\* MediumLevelILExpr(index), the wrapper of an expression index
MediumLevelILExpr(index) == [t |-> "MediumLevelILExpr", v |-> index]

\* MediumLevelILFunction.__getitem__ with the upper test i > len(self)
Function_getitem_through_len(h, i) ==
  LET len == BNGetMediumLevelILInstructionCount(h)
  IN  CASE i.t = "slice" -> Raise("IndexError")
        [] i.t = "MediumLevelILExpr" -> create(h, i.v, <<>>)
        [] i.t = "instr" -> i
        [] i.t = "int" ->
             IF i.v < -len \/ i.v > len THEN Raise("IndexError")
             ELSE LET k == IF i.v < 0 THEN len + i.v ELSE i.v
                  IN  IF k = len THEN create(h, ExprCount(h), <<k>>)
                      ELSE create(h, BNGetMediumLevelILIndexForInstruction(h, k), <<k>>)

\* MediumLevelILFunction.__getitem__; a slice or tuple key is [t |-> "slice"]
Function_getitem(h, i) ==
  LET len == BNGetMediumLevelILInstructionCount(h)
  IN  CASE i.t = "slice" -> Raise("IndexError")
        [] i.t = "MediumLevelILExpr" -> create(h, i.v, <<>>)
        [] i.t = "instr" -> i
        [] i.t = "int" ->
             IF i.v < -len \/ i.v >= len THEN Raise("IndexError")
             ELSE LET k == IF i.v < 0 THEN len + i.v ELSE i.v
                  IN  create(h, BNGetMediumLevelILIndexForInstruction(h, k), <<k>>)

(***************************************************************************)
(* Translation between forms and layers.  The engine answers an index that *)
(* has no counterpart with an index that is not one of the target's.       *)
(***************************************************************************)
\* MediumLevelILFunction.ssa_form, the handle of the form or None
Function_ssa_form(h) == IF mlil[h].ssa = 0 THEN None ELSE PyInt(mlil[h].ssa)

\* MediumLevelILFunction.non_ssa_form
Function_non_ssa_form(h) == IF mlil[h].non_ssa = 0 THEN None ELSE PyInt(mlil[h].non_ssa)

\* MediumLevelILFunction.low_level_il: is there a low level IL function
Function_low_level_il(h) == IF mlil[h].llil.present THEN PyBool(TRUE) ELSE None

\* MediumLevelILFunction.high_level_il
Function_high_level_il(h) == IF mlil[h].hlil.present THEN PyBool(TRUE) ELSE None

\* MediumLevelILFunction.get_ssa_instruction_index
get_ssa_instruction_index(h, instr) == PyInt(mlil[h].ssa_instr[instr + 1])

\* MediumLevelILFunction.get_non_ssa_instruction_index
get_non_ssa_instruction_index(h, instr) == PyInt(mlil[h].non_ssa_instr[instr + 1])

\* core.BNGetLowLevelILInstructionIndex, BNGetLowLevelILExprIndex,
\* BNGetHighLevelILInstructionIndex, BNGetHighLevelILExprIndex: the index
\* itself while the target has it, else an index past the target's end
BNGetLayerIndex(count, index) == IF index < count THEN index ELSE count

\* MediumLevelILFunction.get_low_level_il_instruction_index
get_low_level_il_instruction_index(h, instr) ==
  IF Function_low_level_il(h) = None THEN None
  ELSE IF ~mlil[h].llil.ssa THEN None
  ELSE LET result == BNGetLayerIndex(mlil[h].llil.instr_count, instr)
       IN  IF result >= mlil[h].llil.instr_count THEN None ELSE PyInt(result)

\* MediumLevelILFunction.get_low_level_il_expr_index
get_low_level_il_expr_index(h, expr) ==
  IF Function_low_level_il(h) = None THEN None
  ELSE IF ~mlil[h].llil.ssa THEN None
  ELSE LET result == BNGetLayerIndex(mlil[h].llil.expr_count, expr)
       IN  IF result >= mlil[h].llil.expr_count THEN None ELSE PyInt(result)

\* MediumLevelILFunction.get_high_level_il_instruction_index
get_high_level_il_instruction_index(h, instr) ==
  IF Function_high_level_il(h) = None THEN None
  ELSE LET result == BNGetLayerIndex(mlil[h].hlil.instr_count, instr)
       IN  IF result >= mlil[h].hlil.instr_count THEN None ELSE PyInt(result)

\* MediumLevelILFunction.get_high_level_il_expr_index
get_high_level_il_expr_index(h, expr) ==
  IF Function_high_level_il(h) = None THEN None
  ELSE LET result == BNGetLayerIndex(mlil[h].hlil.expr_count, expr)
       IN  IF result >= mlil[h].hlil.expr_count THEN None ELSE PyInt(result)

\* MediumLevelILFunction.get_low_level_il_expr_indexes and
\* get_high_level_il_expr_indexes: the engine's list, empty without counterpart
get_layer_expr_indexes(count, expr) == IF expr < count THEN <<expr>> ELSE <<>>

\* an instruction object of an adjacent layer, as the arguments it is built from
LayerInstruction(layer, function, expr) == [t |-> layer, v |-> <<function, expr>>]

\* MediumLevelILInstruction.ssa_form
Instruction_ssa_form(n) ==
  LET ssa_func == Function_ssa_form(n.function)
  IN  IF ssa_func = None THEN Raise("AssertionError")
      ELSE create(ssa_func.v, mlil[n.function].ssa_expr[n.expr_index + 1], <<>>)

\* MediumLevelILInstruction.non_ssa_form
Instruction_non_ssa_form(n) ==
  LET non_ssa_func == Function_non_ssa_form(n.function)
  IN  IF non_ssa_func = None THEN Raise("AssertionError")
      ELSE create(non_ssa_func.v, mlil[n.function].non_ssa_expr[n.expr_index + 1], <<>>)

\* MediumLevelILInstruction.low_level_il
low_level_il(n) ==
  LET expr == get_low_level_il_expr_index(n.function, n.expr_index)
  IN  IF expr = None \/ Function_low_level_il(n.function) = None THEN None
      ELSE LayerInstruction("LowLevelILInstruction", PyBool(mlil[n.function].llil.ssa), expr.v)

\* MediumLevelILInstruction.llils
llils(n) ==
  LET exprs == get_layer_expr_indexes(mlil[n.function].llil.expr_count, n.expr_index)
  IN  IF Function_low_level_il(n.function) = None THEN PyList(<<>>)
      ELSE PyList([j \in 1..Len(exprs) |->
                     LayerInstruction("LowLevelILInstruction",
                                      PyBool(mlil[n.function].llil.ssa), exprs[j])])

\* MediumLevelILInstruction.high_level_il
high_level_il(n) ==
  LET expr == get_high_level_il_expr_index(n.function, n.expr_index)
  IN  IF expr = None \/ Function_high_level_il(n.function) = None THEN None
      ELSE LayerInstruction("HighLevelILInstruction", PyBool(TRUE), expr.v)

\* MediumLevelILInstruction.hlils
hlils(n) ==
  LET exprs == get_layer_expr_indexes(mlil[n.function].hlil.expr_count, n.expr_index)
  IN  IF Function_high_level_il(n.function) = None THEN PyList(<<>>)
      ELSE PyList([j \in 1..Len(exprs) |->
                     LayerInstruction("HighLevelILInstruction", PyBool(TRUE), exprs[j])])

(***************************************************************************)
(* Engine contents.                                                        *)
(***************************************************************************)
RECURSIVE Pad(_)
\* the five operand slots of a record
Pad(ops) == IF Len(ops) >= 5 THEN ops ELSE Pad(Append(ops, 0))

\* a record of the engine: BNMediumLevelILInstruction, its lists, its owner
Record(operation, ops, lists, owner) ==
  [operation |-> operation, source_operand |-> 0, size |-> 4, operands |-> Pad(ops),
   address |-> 0, lists |-> lists, owner |-> owner]

\* an adjacent layer (with its SSA form or not) that holds count instructions
\* and count expressions, or no layer
Layer(present, ssa, count) ==
  [present |-> present, ssa |-> ssa,
   instr_count |-> IF present THEN count ELSE 0,
   expr_count |-> IF present THEN count ELSE 0]

Identity(count) == [k \in 1..count |-> k - 1]

\* the function  x = 5; y = x + 1; return y  (x is variable 1, y variable 2)
ExampleExprs ==
  << Record("MLIL_CONST", <<5>>, {}, 0),
     Record("MLIL_SET_VAR", <<1, 0>>, {}, 0),
     Record("MLIL_VAR", <<1>>, {}, 1),
     Record("MLIL_CONST", <<1>>, {}, 1),
     Record("MLIL_ADD", <<2, 3>>, {}, 1),
     Record("MLIL_SET_VAR", <<2, 4>>, {}, 1),
     Record("MLIL_VAR", <<2>>, {}, 2),
     Record("MLIL_RET", <<1, 0>>, {<<0, <<6>> >>}, 2) >>

\* its SSA form:  x#1 = 5; y#1 = x#1 + 1; y#2 = phi(y#1, y#0); return y#2
ExampleSSAExprs ==
  << Record("MLIL_CONST", <<5>>, {}, 0),
     Record("MLIL_SET_VAR_SSA", <<1, 1, 0>>, {}, 0),
     Record("MLIL_VAR_SSA", <<1, 1>>, {}, 1),
     Record("MLIL_CONST", <<1>>, {}, 1),
     Record("MLIL_ADD", <<2, 3>>, {}, 1),
     Record("MLIL_SET_VAR_SSA", <<2, 1, 4>>, {}, 1),
     Record("MLIL_VAR_PHI", <<2, 2, 4, 0>>, {<<2, <<2, 1, 2, 0>> >>}, 2),
     Record("MLIL_VAR_SSA", <<2, 2>>, {}, 3),
     Record("MLIL_RET", <<1, 0>>, {<<0, <<7>> >>}, 3) >>

\* the non-SSA function under handle 1; ssa says whether the engine holds
\* its SSA form (under handle 2)
ExampleFunction(ssa, llil, hlil) ==
  [exprs |-> ExampleExprs, instrs |-> <<1, 5, 7>>,
   ssa |-> IF ssa THEN 2 ELSE 0, non_ssa |-> 1,
   ssa_expr |-> IF ssa THEN <<0, 1, 2, 3, 4, 5, 7, 8>> ELSE [k \in 1..8 |-> 0],
   ssa_instr |-> IF ssa THEN <<0, 1, 3>> ELSE [k \in 1..3 |-> 0],
   non_ssa_expr |-> Identity(8), non_ssa_instr |-> Identity(3),
   llil |-> llil, hlil |-> hlil]

\* the SSA form under handle 2; the phi has no counterpart in the non-SSA
\* form and the engine answers the index past its end
ExampleSSAFunction(llil, hlil) ==
  [exprs |-> ExampleSSAExprs, instrs |-> <<1, 5, 6, 8>>,
   ssa |-> 2, non_ssa |-> 1,
   ssa_expr |-> Identity(9), ssa_instr |-> Identity(4),
   non_ssa_expr |-> <<0, 1, 2, 3, 4, 5, 8, 6, 7>>, non_ssa_instr |-> <<0, 1, 3, 2>>,
   llil |-> llil, hlil |-> hlil]

\* the low and high level IL an analysed function has, or neither
ExampleLayers ==
  {<<Layer(FALSE, FALSE, 0), Layer(FALSE, FALSE, 0)>>,
   <<Layer(TRUE, FALSE, MaxLayerCount), Layer(TRUE, TRUE, MaxLayerCount)>>,
   <<Layer(TRUE, TRUE, MaxLayerCount), Layer(TRUE, TRUE, MaxLayerCount)>>}

ExampleEngines ==
  {<<ExampleFunction(FALSE, l[1], l[2])>> : l \in ExampleLayers}
    \cup {<<ExampleFunction(TRUE, l[1], l[2]), ExampleSSAFunction(l[1], l[2])>> :
            l \in ExampleLayers}

(***************************************************************************)
(* Engine contents, one function per opcode and operand choice: a pool of  *)
(* sub-expressions and, last, a record of the opcode laid out as the       *)
(* registry's schema says.                                                 *)
(***************************************************************************)
\* the opcodes of the SSA form
SSAOps ==
  {"MLIL_SET_VAR_SSA", "MLIL_SET_VAR_SSA_FIELD", "MLIL_SET_VAR_SPLIT_SSA",
   "MLIL_SET_VAR_ALIASED", "MLIL_SET_VAR_ALIASED_FIELD", "MLIL_VAR_SSA",
   "MLIL_VAR_SSA_FIELD", "MLIL_VAR_ALIASED", "MLIL_VAR_ALIASED_FIELD",
   "MLIL_VAR_SPLIT_SSA", "MLIL_CALL_SSA", "MLIL_CALL_UNTYPED_SSA", "MLIL_SYSCALL_SSA",
   "MLIL_SYSCALL_UNTYPED_SSA", "MLIL_TAILCALL_SSA", "MLIL_TAILCALL_UNTYPED_SSA",
   "MLIL_CALL_PARAM_SSA", "MLIL_CALL_OUTPUT_SSA", "MLIL_LOAD_SSA", "MLIL_LOAD_STRUCT_SSA",
   "MLIL_STORE_SSA", "MLIL_STORE_STRUCT_SSA", "MLIL_INTRINSIC_SSA",
   "MLIL_FREE_VAR_SLOT_SSA", "MLIL_VAR_PHI", "MLIL_MEM_PHI"}

\* expressions 0..10: x, y, 1, y + 1, outputs [x], params [y, x], SSA outputs
\* [x#2], SSA params [y#1], x#1, y#2, y#2 + 1
PoolExprs ==
  << Record("MLIL_VAR", <<1>>, {}, 0),
     Record("MLIL_VAR", <<2>>, {}, 0),
     Record("MLIL_CONST", <<1>>, {}, 0),
     Record("MLIL_ADD", <<1, 2>>, {}, 0),
     Record("MLIL_CALL_OUTPUT", <<1, 0>>, {<<0, <<1>> >>}, 0),
     Record("MLIL_CALL_PARAM", <<2, 0>>, {<<0, <<2, 1>> >>}, 0),
     Record("MLIL_CALL_OUTPUT_SSA", <<1, 2, 0>>, {<<1, <<1, 2>> >>}, 0),
     Record("MLIL_CALL_PARAM_SSA", <<1, 2, 0>>, {<<1, <<2, 1>> >>}, 0),
     Record("MLIL_VAR_SSA", <<1, 1>>, {}, 0),
     Record("MLIL_VAR_SSA", <<2, 2>>, {}, 0),
     Record("MLIL_ADD", <<9, 2>>, {}, 0) >>

\* the values a record of the opcode may hold for one operand of its schema
Choices(op, entry) ==
  LET name == entry[1]
      type == entry[2]
      ssa == op \in SSAOps
  IN  CASE type = "expr" /\ op \in CallOps /\ name = "output" -> IF ssa THEN {6} ELSE {4}
        [] type = "expr" /\ op \in CallOps /\ name = "params" -> IF ssa THEN {7} ELSE {5}
        [] type = "expr" -> IF ssa THEN {8, 10} ELSE {0, 3}
        [] type \in {"int", "float", "intrinsic"} -> {1}
        [] type = "var" -> {1, 2}
        [] type = "var_ssa" -> {<<1, 1>>, <<2, 2>>}
        [] type = "var_ssa_dest_and_src" -> {<<1, 2, 1>>}
        [] type = "int_list" -> {<<>>, <<1, 2>>}
        [] type = "var_list" -> {<<>>, <<1>>, <<1, 2>>}
        [] type = "var_ssa_list" -> {<<>>, <<1, 1>>, <<1, 1, 2, 2>>, <<1, 1, 2>>}
        [] type = "expr_list" ->
             IF ssa THEN {<<>>, <<8>>, <<10, 8>>} ELSE {<<>>, <<0>>, <<3, 0>>}
        [] type = "target_map" -> {<<>>, <<10, 1>>, <<10, 1, 10, 2>>, <<10, 1, 20>>}

\* the slots and lists of a record after one more operand is stored
Put(r, type, c) ==
  CASE SlotWidth(type) = 1 -> [ops |-> Append(r.ops, c), lists |-> r.lists]
    [] type \in {"var_ssa", "var_ssa_dest_and_src"} -> [ops |-> r.ops \o c, lists |-> r.lists]
    [] OTHER -> [ops |-> r.ops \o <<Len(c), 0>>,
                 lists |-> r.lists \cup {<<Len(r.ops), c>>}]

RECURSIVE Fill(_, _)
\* every way to store the operands of a schema
Fill(op, schema) ==
  IF schema = <<>> THEN {[ops |-> <<>>, lists |-> {}]}
  ELSE LET last == schema[Len(schema)]
       IN  {Put(r, last[2], c) : r \in Fill(op, SubSeq(schema, 1, Len(schema) - 1)),
                                 c \in Choices(op, last)}

\* the function whose only instruction is the given record of the opcode
ShapeFunction(op, r) ==
  [exprs |-> Append(PoolExprs, Record(op, r.ops, r.lists, 0)),
   instrs |-> <<Len(PoolExprs)>>, ssa |-> 0, non_ssa |-> 1,
   ssa_expr |-> [k \in 1..(Len(PoolExprs) + 1) |-> 0], ssa_instr |-> <<0>>,
   non_ssa_expr |-> Identity(Len(PoolExprs) + 1), non_ssa_instr |-> <<0>>,
   llil |-> Layer(FALSE, FALSE, 0), hlil |-> Layer(FALSE, FALSE, 0)]

ShapeEngines ==
  UNION {{<<ShapeFunction(op, r)>> : r \in Fill(op, Schema(op))} : op \in ILInstruction}

\* the lists of (id, version) and (key, target) pairs of a record hold whole
\* pairs
WellFormed(rec) ==
  LET schema == Schema(rec.operation)
  IN  \A k \in 1..Len(schema) :
        schema[k][2] \in {"var_ssa_list", "target_map"} =>
          \A p \in rec.lists : p[1] = SchemaSlot(schema, k) => Len(p[2]) % 2 = 0

(***************************************************************************)
(* The client: decodes nodes and queries them.                             *)
(***************************************************************************)
Handles == DOMAIN mlil

\* the expression indexes a caller passes for a function
ExprArgs(h) == {e \in 0..MaxExprArg : e < ExprCount(h)}

\* the instruction indexes a caller passes for a function
InstrArgs(h) == {i \in 0..MaxInstrArg : i < BNGetMediumLevelILInstructionCount(h)}

OptionalInstrIndex == {<<>>} \cup {<<i>> : i \in 0..MaxInstrArg}

Asked(q, n, m, r) == [q |-> q, n |-> n, m |-> m, r |-> r]

\* a decoded node replaces the client's node; a failed decode leaves it
Keep(result, call) ==
  /\ node' = IF result.t = "instr" THEN result ELSE node
  /\ args' = IF result.t = "instr" THEN call ELSE args

\* MediumLevelILInstruction.create(function, expr_index, instr_index)
Create(h, e, ii) ==
  LET result == create(h, e, ii)
  IN  /\ Keep(result, <<h, e, ii>>)
      /\ out' = Asked("create", PyInt(h), <<e, ii>>, result)
      /\ UNCHANGED <<mlil, slot>>

GetItemKeys ==
  {PyInt(i) : i \in (0 - MaxInstrArg - 3)..(MaxInstrArg + 2)}
    \cup {MediumLevelILExpr(e) : e \in 0..MaxExprArg}
    \cup {[t |-> "slice", v |-> 0]}
    \cup (IF node = None THEN {} ELSE {node})

\* function[i]
GetItem(h, i) ==
  LET result == Function_getitem(h, i)
  IN  /\ Keep(result, IF i.t = "int" /\ ~Raised(result)
                      THEN <<h, result.v.expr_index, result.v.instr_index>>
                      ELSE IF i.t = "MediumLevelILExpr" THEN <<h, i.v, <<>> >> ELSE args)
      /\ out' = Asked("getitem", PyInt(h), i, result)
      /\ UNCHANGED <<mlil, slot>>

\* node.vars_read
VarsRead ==
  /\ node # None
  /\ out' = Asked("vars_read", node, None, vars_read(node.v))
  /\ UNCHANGED <<mlil, node, args, slot>>

\* node.vars_written
VarsWritten ==
  /\ node # None
  /\ out' = Asked("vars_written", node, None, vars_written(node.v))
  /\ UNCHANGED <<mlil, node, args, slot>>

\* list(node.operands)
Operands ==
  /\ node # None
  /\ out' = Asked("operands", node, None, operands(node.v))
  /\ UNCHANGED <<mlil, node, args, slot>>

\* node == MediumLevelILInstruction.create(h, e, ii); m keeps the second
\* node and the arguments it was decoded with
Equal(h, e, ii) ==
  LET other == create(h, e, ii)
  IN  /\ node # None
      /\ ~Raised(other)
      /\ out' = Asked("eq", node, <<other, <<h, e, ii>> >>, PyBool(Dataclass_eq(node.v, other.v)))
      /\ UNCHANGED <<mlil, node, args, slot>>

NodeAccessors == {"ssa_form", "non_ssa_form", "low_level_il", "high_level_il", "llils", "hlils"}

\* node.ssa_form, node.non_ssa_form, node.low_level_il, node.high_level_il,
\* node.llils, node.hlils
Translate(q) ==
  /\ node # None
  /\ out' = Asked(q, node, None,
                  CASE q = "ssa_form" -> Instruction_ssa_form(node.v)
                    [] q = "non_ssa_form" -> Instruction_non_ssa_form(node.v)
                    [] q = "low_level_il" -> low_level_il(node.v)
                    [] q = "high_level_il" -> high_level_il(node.v)
                    [] q = "llils" -> llils(node.v)
                    [] q = "hlils" -> hlils(node.v))
  /\ UNCHANGED <<mlil, node, args, slot>>

InstrQueries ==
  {"get_ssa_instruction_index", "get_non_ssa_instruction_index",
   "get_low_level_il_instruction_index", "get_high_level_il_instruction_index"}

ExprQueries == {"get_low_level_il_expr_index", "get_high_level_il_expr_index"}

\* function.get_..._instruction_index(instr) for an instruction of the function
TranslateInstr(q, h, instr) ==
  /\ out' = Asked(q, PyInt(h), PyInt(instr),
                  CASE q = "get_ssa_instruction_index" -> get_ssa_instruction_index(h, instr)
                    [] q = "get_non_ssa_instruction_index" ->
                         get_non_ssa_instruction_index(h, instr)
                    [] q = "get_low_level_il_instruction_index" ->
                         get_low_level_il_instruction_index(h, instr)
                    [] q = "get_high_level_il_instruction_index" ->
                         get_high_level_il_instruction_index(h, instr))
  /\ UNCHANGED <<mlil, node, args, slot>>

\* function.get_..._expr_index(expr) for an expression of the function
TranslateExpr(q, h, expr) ==
  /\ out' = Asked(q, PyInt(h), PyInt(expr),
                  CASE q = "get_low_level_il_expr_index" -> get_low_level_il_expr_index(h, expr)
                    [] q = "get_high_level_il_expr_index" ->
                         get_high_level_il_expr_index(h, expr))
  /\ UNCHANGED <<mlil, node, args, slot>>

NoQuery == Asked("", None, None, None)

Init ==
  /\ mlil \in ExampleEngines
  /\ node = None
  /\ args = <<>>
  /\ out = NoQuery
  /\ slot = U64(0)

Next ==
  \/ \E h \in Handles : \E e \in ExprArgs(h) \cup {ExprCount(h)} :
       \E ii \in OptionalInstrIndex : Create(h, e, ii)
  \/ \E h \in Handles : \E i \in GetItemKeys : GetItem(h, i)
  \/ VarsRead
  \/ VarsWritten
  \/ Operands
  \/ \E h \in Handles : \E e \in ExprArgs(h) : \E ii \in OptionalInstrIndex : Equal(h, e, ii)
  \/ \E q \in NodeAccessors : Translate(q)
  \/ \E q \in InstrQueries : \E h \in Handles : \E instr \in InstrArgs(h) :
       \* what the engine answers about a form it does not hold is not known
       /\ q = "get_ssa_instruction_index" => mlil[h].ssa # 0
       /\ TranslateInstr(q, h, instr)
  \/ \E q \in ExprQueries : \E h \in Handles : \E e \in ExprArgs(h) : TranslateExpr(q, h, e)

Spec == Init /\ [][Next]_vars

(***************************************************************************)
(* Properties of the example function and of translation.                  *)
(***************************************************************************)
\* the set of the elements of a Python list
Elems(l) == {l.v[k] : k \in 1..Len(l.v)}

\* the node is the k-th instruction of the example function
IsExampleInstruction(n, k) == n.v.function = 1 /\ n.v.expr_index = mlil[1].instrs[k]

\* C1: in the function  x = 5; y = x + 1; return y  vars_read of the first
\* instruction is empty, of the second exactly {x} and of the third, whose
\* operand is a list of expressions, exactly {y}.
C1_ExampleVarsRead ==
  out.q = "vars_read" =>
    /\ IsExampleInstruction(out.n, 1) => out.r.t = "list" /\ Elems(out.r) = {}
    /\ IsExampleInstruction(out.n, 2) =>
         out.r.t = "list" /\ Elems(out.r) = {Variable_from_identifier(1)}
    /\ IsExampleInstruction(out.n, 3) =>
         out.r.t = "list" /\ Elems(out.r) = {Variable_from_identifier(2)}

\* C4: two decoded nodes compare equal if and only if they are of the same
\* function and have the same expression index, whatever record and
\* instruction index they carry.
C4_EqualIffSameFunctionAndIndex ==
  out.q = "eq" =>
    (out.r = PyBool(TRUE) <=>
       /\ out.n.v.function = out.m[1].v.function
       /\ out.n.v.expr_index = out.m[1].v.expr_index)

C9_NodeTranslationNeverFails == out.q \in NodeAccessors => ~Raised(out.r)

\* the number of instructions or expressions of the function a query
\* translates into, 0 when the engine has no such function
TargetCount(q, h) ==
  CASE q = "get_ssa_instruction_index" ->
         IF mlil[h].ssa = 0 THEN 0 ELSE BNGetMediumLevelILInstructionCount(mlil[h].ssa)
    [] q = "get_non_ssa_instruction_index" ->
         IF mlil[h].non_ssa = 0 THEN 0 ELSE BNGetMediumLevelILInstructionCount(mlil[h].non_ssa)
    [] q = "get_low_level_il_instruction_index" -> mlil[h].llil.instr_count
    [] q = "get_low_level_il_expr_index" -> mlil[h].llil.expr_count
    [] q = "get_high_level_il_instruction_index" -> mlil[h].hlil.instr_count
    [] q = "get_high_level_il_expr_index" -> mlil[h].hlil.expr_count

\* C10: every function-level index translation returns None or an index
\* below the count of the target function.
C10_IndexQueriesInRange ==
  out.q \in InstrQueries \cup ExprQueries =>
    \/ out.r = None
    \/ out.r.t = "int" /\ out.r.v < TargetCount(out.q, out.n.v)

(***************************************************************************)
(* Every opcode: the client indexes the one-instruction functions and      *)
(* queries the node.                                                       *)
(***************************************************************************)
InitShapes ==
  /\ mlil \in ShapeEngines
  /\ node = None
  /\ args = <<>>
  /\ out = NoQuery
  /\ slot = U64(0)

NextShapes ==
  \/ \E h \in Handles : \E i \in GetItemKeys : GetItem(h, i)
  \/ VarsRead
  \/ VarsWritten
  \/ Operands

SpecShapes == InitShapes /\ [][NextShapes]_vars

\* the engine's record of a node
RecordOf(n) == mlil[n.function].exprs[n.expr_index + 1]

\* the variable a schema operand of type var, var_ssa or var_ssa_dest_and_src
\* stores from the given slot on
StoredVar(rec, type, at) ==
  IF type = "var" THEN Variable_from_identifier(rec.operands[at + 1])
  ELSE SSAVariable(Variable_from_identifier(rec.operands[at + 1]), rec.operands[at + 2])

\* the variables a schema operand of type var_list or var_ssa_list stores
StoredVars(rec, type, at) ==
  LET l == (CHOOSE p \in rec.lists : p[1] = at)[2]
  IN  IF type = "var_list" THEN {Variable_from_identifier(l[j]) : j \in 1..Len(l)}
      ELSE {SSAVariable(Variable_from_identifier(l[2 * j - 1]), l[2 * j]) :
              j \in 1..(Len(l) \div 2)}

\* the destination variables the schema of a SetVar-family record stores
Destinations(rec) ==
  LET schema == Schema(rec.operation)
  IN  {StoredVar(rec, schema[k][2], SchemaSlot(schema, k)) :
         k \in {j \in 1..Len(schema) : schema[j][1] \in {"dest", "high", "low", "prev"}}}

\* the record assigns a variable to itself: x = x or x#1 = x#1
SelfAssignment(h, rec) ==
  /\ rec.operation \in {"MLIL_SET_VAR", "MLIL_SET_VAR_SSA"}
  /\ LET schema == Schema(rec.operation)
         src == mlil[h].exprs[rec.operands[SchemaSlot(schema, 2) + 1] + 1]
     IN  /\ src.operation \in {"MLIL_VAR", "MLIL_VAR_SSA"}
         /\ Destinations(rec) = {StoredVar(src, Schema(src.operation)[1][2], 0)}

\* C2: vars_written of a SetVar-family node is exactly its destination
\* variables, also when the source names other variables, and a
\* self-assignment x = x reads {x} and writes {x}.
C2_SetVarWritesDestinations ==
  /\ (out.q = "vars_written" /\ out.n.v.instr.operation \in SetVarOps) =>
       out.r.t = "list" /\ Elems(out.r) = Destinations(RecordOf(out.n.v))
  /\ (out.q = "vars_read" /\ SelfAssignment(out.n.v.function, RecordOf(out.n.v))) =>
       out.r.t = "list" /\ Elems(out.r) = Destinations(RecordOf(out.n.v))

\* x = y + 1 was asked for vars_written and answered [x]
C2_Witness ==
  /\ out.q = "vars_written"
  /\ out.n.v.instr.operation = "MLIL_SET_VAR"
  /\ out.n.v.instr.operands[1] = 1
  /\ RecordOf(out.n.v).operands[2] = 3
  /\ out.r = PyList(<<Variable_from_identifier(1)>>)

RECURSIVE Leaves(_, _)
\* the variables at the leaves of an expression, by the schema of its records
Leaves(h, e) ==
  LET rec == mlil[h].exprs[e + 1]
      schema == Schema(rec.operation)
  IN  UNION {CASE schema[k][2] \in {"var", "var_ssa"} ->
                    {StoredVar(rec, schema[k][2], SchemaSlot(schema, k))}
               [] schema[k][2] = "expr" -> Leaves(h, rec.operands[SchemaSlot(schema, k) + 1])
               [] OTHER -> {} : k \in 1..Len(schema)}

\* the variables the schema operand of a call record with the given name
\* holds: stored in a list of the record itself, or in the list of the
\* MLIL_CALL_OUTPUT / MLIL_CALL_PARAM record the operand points to, or at the
\* leaves of the listed expressions
CallVars(h, rec, name) ==
  LET schema == Schema(rec.operation)
      k == CHOOSE j \in 1..Len(schema) : schema[j][1] = name
      at == SchemaSlot(schema, k)
      type == schema[k][2]
  IN  CASE type \in {"var_list", "var_ssa_list"} -> StoredVars(rec, type, at)
        [] type = "expr_list" ->
             LET l == (CHOOSE p \in rec.lists : p[1] = at)[2]
             IN  UNION {Leaves(h, l[j]) : j \in 1..Len(l)}
        [] type = "expr" ->
             LET sub == mlil[h].exprs[rec.operands[at + 1] + 1]
                 subschema == Schema(sub.operation)
             IN  StoredVars(sub, subschema[Len(subschema)][2],
                            SchemaSlot(subschema, Len(subschema)))

\* C3: for every call, syscall and tailcall shape decoded from a well-formed
\* record vars_written is the output variables and vars_read the variables
\* the parameters read; neither raises.
C3_CallReadsAndWrites ==
  (out.q \in {"vars_written", "vars_read"} /\ out.n.v.instr.operation \in CallOps
     /\ WellFormed(RecordOf(out.n.v))) =>
    /\ out.r.t = "list"
    /\ Elems(out.r) = CallVars(out.n.v.function, RecordOf(out.n.v),
                               IF out.q = "vars_written" THEN "output" ELSE "params")

\* C6: for every opcode, enumerating the operands of a decoded well-formed
\* record does not raise and yields as many operands as operand_names names.
C6_OperandsMatchNames ==
  (out.q = "operands" /\ WellFormed(RecordOf(out.n.v))) =>
    /\ out.r.t = "list"
    /\ Len(out.r.v) = Len(operand_names(out.n.v.instr.operation))

\* C8: decoding the operands of a record whose SSA-variable list or target
\* map has an odd number of elements fails.
C8_OddPairListFails ==
  (out.q = "operands" /\ ~WellFormed(RecordOf(out.n.v))) => Raised(out.r)

(***************************************************************************)
(* get_int over the 64-bit slot values.                                    *)
(***************************************************************************)
\* limbs at the edges of the range and of the sign bit
LimbValues == {0, 1, HalfLimb - 1, HalfLimb, LimbBase - 1}

InitInt ==
  /\ mlil = <<ExampleFunction(FALSE, Layer(FALSE, FALSE, 0), Layer(FALSE, FALSE, 0))>>
  /\ node = None
  /\ args = <<>>
  /\ out = NoQuery
  /\ slot \in [1..4 -> LimbValues]

\* node.get_int(i) where operand i of the node's record holds the slot value
GetInt ==
  /\ out' = Asked("get_int", [t |-> "slot", v |-> slot], None, get_int_value(slot))
  /\ UNCHANGED <<mlil, node, args, slot>>

NextInt == GetInt

SpecInt == InitInt /\ [][NextInt]_vars

RECURSIVE LimbsInc(_)
\* a + 1 modulo 2^64
LimbsInc(a) ==
  IF a = <<>> THEN <<>>
  ELSE IF Head(a) = LimbBase - 1 THEN <<0>> \o LimbsInc(Tail(a))
  ELSE <<Head(a) + 1>> \o Tail(a)

\* 2^64 - a for 0 < a < 2^64: every bit inverted, plus one
TwosComplement(a) == LimbsInc([k \in 1..4 |-> LimbBase - 1 - a[k]])

\* the Python integer v when v < 2^63, else v - 2^64
Signed64(v) ==
  IF v[4] < HalfLimb THEN [neg |-> FALSE, mag |-> v]
  ELSE [neg |-> TRUE, mag |-> TwosComplement(v)]

\* x modulo 2^64 for -2^64 < x < 2^64
Mod64(x) == IF x.neg THEN TwosComplement(x.mag) ELSE x.mag

\* -2^63 <= x < 2^63
InInt64(x) ==
  IF x.neg THEN x.mag[4] < HalfLimb \/ x.mag = <<0, 0, 0, HalfLimb>>
  ELSE x.mag[4] < HalfLimb

\* C7: get_int of a slot value v is v below 2^63 and v - 2^64 from 2^63 on;
\* the result lies in [-2^63, 2^63) and is v again modulo 2^64.
C7_GetIntSignExtends ==
  out.q = "get_int" =>
    /\ out.r = Signed64(out.n.v)
    /\ InInt64(out.r)
    /\ Mod64(out.r) = out.n.v

\* the slot 0xFFFFFFFFFFFFFFFF was decoded to -1
C7_Witness ==
  /\ out.q = "get_int"
  /\ out.n.v = [k \in 1..4 |-> LimbBase - 1]
  /\ out.r = [neg |-> TRUE, mag |-> <<1, 0, 0, 0>>]

(***************************************************************************)
(* Building a function.  MediumLevelILFunction forwards every build call   *)
(* to the engine and keeps no state of its own.  The engine's function     *)
(* under construction holds, besides exprs and instrs,                     *)
(*   labels     for each MediumLevelILLabel, <<>> or <<i>> once marked at  *)
(*              instruction i                                              *)
(*   blocks     the basic block list, computed by finalize                 *)
(*   finalized  finalize has run and nothing was added since               *)
(* A call answers Done(r, f): the value r it returns (or raises) and the   *)
(* engine's function f after it.                                           *)
(***************************************************************************)
\* most expressions / instructions the engine is asked to hold
MaxBuildExprs == 2
MaxBuildInstrs == 2

\* the labels a builder creates
Labels == {"done"}

MediumLevelILLabel(name) == [t |-> "MediumLevelILLabel", v |-> name]
PyStr(s) == [t |-> "str", v |-> s]
\* a member of the enumeration MediumLevelILOperation
MediumLevelILOperation(name) == [t |-> "MediumLevelILOperation", v |-> name]
Block(start, end) == [start |-> start, end |-> end]

Done(r, f) == [r |-> r, f |-> f]
\* the call raised before it reached the engine
Failed(h, e) == Done(Raise(e), mlil[h])
\* MediumLevelILExpr(core.X(...))
Wrap(res) == Done(MediumLevelILExpr(res.r), res.f)

BuildFunction(exprs, instrs) ==
  [exprs |-> exprs, instrs |-> instrs, labels |-> [l \in Labels |-> <<>>],
   blocks |-> <<>>, finalized |-> FALSE]

BuildRecord(operation, size, ops, lists) ==
  [operation |-> operation, source_operand |-> 0, size |-> size, operands |-> Pad(ops),
   address |-> 0, lists |-> lists, owner |-> 0]

\* the engine stores a record under the next expression index and answers
\* that index
AddRecord(h, rec) ==
  Done(ExprCount(h), [mlil[h] EXCEPT !.exprs = Append(@, rec), !.finalized = FALSE])

BNMediumLevelILAddExpr(h, operation, size, a, b, c, d, e) ==
  AddRecord(h, BuildRecord(operation, size, <<a, b, c, d, e>>, {}))

\* the engine makes the expression the root of the next instruction and
\* answers the number of instructions
BNMediumLevelILAddInstruction(h, expr) ==
  LET f == [mlil[h] EXCEPT !.instrs = Append(@, expr), !.finalized = FALSE]
  IN  Done(PyInt(Len(f.instrs)), f)

\* the engine resolves the instruction a label stands for when it computes
\* the blocks; until then the destination is 0
BNMediumLevelILGoto(h, label) ==
  AddRecord(h, BuildRecord("MLIL_GOTO", 0, <<0>>, {}))

BNMediumLevelILIf(h, operand, t, f) ==
  AddRecord(h, BuildRecord("MLIL_IF", 0, <<operand, 0, 0>>, {}))

\* the label now stands for the next instruction to be appended
BNMediumLevelILMarkLabel(h, label) ==
  Done(None, [mlil[h] EXCEPT !.labels[label] = <<Len(mlil[h].instrs)>>])

\* a list is stored under an expression index of its own
BNMediumLevelILAddLabelMap(h, values, labels, count) ==
  AddRecord(h, BuildRecord("MLIL_UNDEF", 0, <<count>>, {<<0, values>>}))

BNMediumLevelILAddOperandList(h, operand_list, count) ==
  AddRecord(h, BuildRecord("MLIL_UNDEF", 0, <<count>>, {<<0, operand_list>>}))

\* the instructions that end a basic block
BlockEnds == {"MLIL_GOTO", "MLIL_IF", "MLIL_JUMP", "MLIL_JUMP_TO", "MLIL_RET", "MLIL_NORET"}

\* where the blocks of the instructions start: at 0, after an instruction
\* that ends a block, and at a marked label
BlockStarts(f) ==
  LET n == Len(f.instrs)
  IN  {i \in 0..(n - 1) :
         \/ i = 0
         \/ f.exprs[f.instrs[i] + 1].operation \in BlockEnds
         \/ \E l \in Labels : f.labels[l] = <<i>>}

RECURSIVE BlocksFrom(_, _, _)
\* the blocks of instructions i..n-1 given the set of block starts
BlocksFrom(starts, i, n) ==
  IF i >= n THEN <<>>
  ELSE LET later == {s \in starts : s > i}
           end == IF later = {} THEN n
                  ELSE CHOOSE s \in later : \A u \in later : s <= u
       IN  <<Block(i, end)>> \o BlocksFrom(starts, end, n)

\* the finalized forms of a function: finalize computes the basic block
\* list; for a function without instructions the engine holds no block or
\* one empty block
Finalized(f) ==
  LET n == Len(f.instrs)
      lists == IF n = 0 THEN {<<>>, <<Block(0, 0)>>}
               ELSE {BlocksFrom(BlockStarts(f), 0, n)}
  IN  {[f EXCEPT !.blocks = b, !.finalized = TRUE] : b \in lists}

BNFinalizeMediumLevelILFunction(h) == {Done(None, f) : f \in Finalized(mlil[h])}

BNGetMediumLevelILBasicBlockList(h) == mlil[h].blocks

\* an expr that answers the index before the one the engine assigned
Function_expr_previous_index(h, operation, a, b, c, d, e, size) ==
  IF operation.t = "str" /\ operation.v \notin ILInstruction THEN Failed(h, "KeyError")
  ELSE LET res == BNMediumLevelILAddExpr(h, operation.v, size, a, b, c, d, e)
       IN  Done(MediumLevelILExpr(IF res.r = 0 THEN 0 ELSE res.r - 1), res.f)

\* MediumLevelILFunction.expr
Function_expr(h, operation, a, b, c, d, e, size) ==
  IF operation.t = "str" /\ operation.v \notin ILInstruction THEN Failed(h, "KeyError")
  ELSE Wrap(BNMediumLevelILAddExpr(h, operation.v, size, a, b, c, d, e))

\* an append that makes expression 0 the root, whatever it is given
Function_append_root_zero(h, expr) ==
  IF expr.t # "MediumLevelILExpr" THEN Failed(h, "AttributeError")
  ELSE BNMediumLevelILAddInstruction(h, 0)

\* MediumLevelILFunction.append
Function_append(h, expr) ==
  IF expr.t # "MediumLevelILExpr" THEN Failed(h, "AttributeError")
  ELSE BNMediumLevelILAddInstruction(h, expr.v)

\* MediumLevelILFunction.goto
Function_goto(h, label) ==
  IF label.t # "MediumLevelILLabel" THEN Failed(h, "AttributeError")
  ELSE Wrap(BNMediumLevelILGoto(h, label.v))

\* MediumLevelILFunction.if_expr
Function_if_expr(h, operand, t, f) ==
  IF operand.t # "MediumLevelILExpr" \/ t.t # "MediumLevelILLabel"
       \/ f.t # "MediumLevelILLabel"
  THEN Failed(h, "AttributeError")
  ELSE Wrap(BNMediumLevelILIf(h, operand.v, t.v, f.v))

\* MediumLevelILFunction.mark_label
Function_mark_label(h, label) ==
  IF label.t # "MediumLevelILLabel" THEN Failed(h, "AttributeError")
  ELSE BNMediumLevelILMarkLabel(h, label.v)

\* MediumLevelILFunction.add_label_map; labels is the sequence of the
\* mapping's (key, label) items.  An integer key is not an instance of the
\* pointer type the value list is made of.
Function_add_label_map(h, labels) ==
  IF Len(labels.v) > 0 THEN Failed(h, "TypeError")
  ELSE Wrap(BNMediumLevelILAddLabelMap(h, <<>>, <<>>, Len(labels.v)))

\* MediumLevelILFunction.add_operand_list; the operands are small and not
\* negative, so the conversion to 64 bits keeps them
Function_add_operand_list(h, operand_list) ==
  IF \E k \in 1..Len(operand_list.v) : operand_list.v[k].t # "int" THEN Failed(h, "TypeError")
  ELSE Wrap(BNMediumLevelILAddOperandList(
              h, [k \in 1..Len(operand_list.v) |-> operand_list.v[k].v], Len(operand_list.v)))

\* MediumLevelILFunction.finalize: the outcomes of the call
Function_finalize(h) == BNFinalizeMediumLevelILFunction(h)

\* a __setitem__ that stores the value as the root of instruction i
Function_setitem_stores(h, i, j) ==
  IF i.t = "int" /\ j.t = "MediumLevelILExpr" /\ i.v \in 0..(Len(mlil[h].instrs) - 1)
  THEN Done(None, [mlil[h] EXCEPT !.instrs[i.v + 1] = j.v])
  ELSE Failed(h, "IndexError")

\* MediumLevelILFunction.__setitem__
Function_setitem(h, i, j) == Failed(h, "IndexError")

(***************************************************************************)
(* The builder: one producer that stages expressions, appends them and     *)
(* finalizes, and keeps in args the expressions the calls returned.        *)
(***************************************************************************)
BuildCall(h, q, m, res) ==
  /\ mlil' = [mlil EXCEPT ![h] = res.f]
  /\ out' = Asked(q, PyInt(h), m, res.r)
  /\ args' = IF res.r.t = "MediumLevelILExpr" THEN Append(args, res.r) ELSE args
  /\ UNCHANGED <<node, slot>>

CanStage(h) == ExprCount(h) < MaxBuildExprs
CanAppend(h) == BNGetMediumLevelILInstructionCount(h) < MaxBuildInstrs

\* the expressions the builder holds
Staged == {args[k] : k \in 1..Len(args)}

\* the expression the builder staged last
LastStaged == IF args = <<>> THEN {} ELSE {args[Len(args)]}

ExprOperations ==
  {MediumLevelILOperation("MLIL_CONST"), PyStr("MLIL_CONST"), PyStr("MLIL_BOGUS")}

LabelArgs == {MediumLevelILLabel(l) : l \in Labels}

Expr(h, operation) ==
  /\ CanStage(h)
  /\ BuildCall(h, "expr", <<operation, 5>>, Function_expr(h, operation, 5, 0, 0, 0, 0, 4))

AppendExpr(h, expr) ==
  /\ CanAppend(h)
  /\ BuildCall(h, "append", expr, Function_append(h, expr))

Goto(h, label) ==
  /\ CanStage(h)
  /\ BuildCall(h, "goto", label, Function_goto(h, label))

IfExpr(h, operand, label) ==
  /\ CanStage(h)
  /\ BuildCall(h, "if_expr", <<operand, label, label>>,
               Function_if_expr(h, operand, label, label))

MarkLabel(h, label) ==
  BuildCall(h, "mark_label", label, Function_mark_label(h, label))

LabelMaps == {PyDict(<<>>), PyDict(<< <<0, MediumLevelILLabel("done")>> >>)}

AddLabelMap(h, labels) ==
  /\ CanStage(h)
  /\ BuildCall(h, "add_label_map", labels, Function_add_label_map(h, labels))

OperandLists == {PyList(<<PyInt(0)>>), PyList(<<None>>)}

AddOperandList(h, operand_list) ==
  /\ CanStage(h)
  /\ BuildCall(h, "add_operand_list", operand_list, Function_add_operand_list(h, operand_list))

Finalize(h) ==
  \E res \in Function_finalize(h) : BuildCall(h, "finalize", <<>>, res)

\* function[i] = j
SetItem(h, i, j) ==
  BuildCall(h, "__setitem__", <<i, j>>, Function_setitem(h, i, j))

SetItemKeys == {PyInt(0), PyInt(MaxBuildInstrs), [t |-> "slice", v |-> 0]}

(***************************************************************************)
(* Basic blocks of a function and their iteration.                         *)
(***************************************************************************)
\* MediumLevelILBasicBlock(core_block, owner, view); start and end are the
\* engine's, read through the block's handle
MediumLevelILBasicBlock(h, core_block) ==
  [t |-> "MediumLevelILBasicBlock",
   v |-> [il_function |-> h, start |-> core_block.start, end |-> core_block.end]]

\* MediumLevelILFunction.basic_blocks, the blocks it yields
Function_basic_blocks(h) ==
  LET blocks == BNGetMediumLevelILBasicBlockList(h)
  IN  [k \in 1..Len(blocks) |-> MediumLevelILBasicBlock(h, blocks[k])]

\* range(start, end)
Range(start, end) ==
  IF end <= start THEN <<>> ELSE [k \in 1..(end - start) |-> start + k - 1]

\* what draining a generator gives: the list of the items it yields, or the
\* exception of the first item that raises
Drained(items) ==
  LET bad == {k \in 1..Len(items) : Raised(items[k])}
  IN  IF bad = {} THEN PyList(items)
      ELSE items[CHOOSE k \in bad : \A j \in bad : k <= j]

\* a block iteration that also yields the instruction at end
Block_iter_through_end(block) ==
  LET idxs == Range(block.v.start, block.v.end + 1)
  IN  [k \in 1..Len(idxs) |-> Function_getitem(block.v.il_function, PyInt(idxs[k]))]

\* MediumLevelILBasicBlock.__iter__, the items it yields
Block_iter(block) ==
  LET idxs == Range(block.v.start, block.v.end)
  IN  [k \in 1..Len(idxs) |-> Function_getitem(block.v.il_function, PyInt(idxs[k]))]

\* MediumLevelILBasicBlock.instruction_count
Block_instruction_count(block) == PyInt(block.v.end - block.v.start)

RECURSIVE Chain(_)
\* the items of the generators of a sequence, one generator after another
Chain(generators) ==
  IF generators = <<>> THEN <<>>
  ELSE Head(generators) \o Chain(Tail(generators))

\* an instructions generator that stops after the first block
Function_instructions_first_block(h) ==
  LET blocks == Function_basic_blocks(h)
  IN  IF blocks = <<>> THEN <<>> ELSE Block_iter(blocks[1])

\* MediumLevelILFunction.instructions, the items it yields
Function_instructions(h) ==
  LET blocks == Function_basic_blocks(h)
  IN  Chain([k \in 1..Len(blocks) |-> Block_iter(blocks[k])])

\* what the consumer remembers: the block it iterated last, the result of
\* its first iteration, and whether it has iterated the block again
Iteration(block, result, again) ==
  [t |-> "iteration", v |-> [block |-> block, result |-> result, again |-> again]]

\* list(block)
BlockIter(h, k) ==
  LET block == Function_basic_blocks(h)[k]
      result == Drained(Block_iter(block))
  IN  /\ out' = Asked("block_iter", block, <<>>, result)
      /\ node' = IF node.t = "iteration" /\ node.v.block = block
                 THEN Iteration(block, node.v.result, TRUE)
                 ELSE Iteration(block, result, FALSE)
      /\ UNCHANGED <<mlil, args, slot>>

\* block.instruction_count
BlockInstructionCount(h, k) ==
  LET block == Function_basic_blocks(h)[k]
  IN  /\ out' = Asked("instruction_count", block, <<>>, Block_instruction_count(block))
      /\ UNCHANGED <<mlil, node, args, slot>>

\* list(function.instructions)
Instructions(h) ==
  /\ out' = Asked("instructions", PyInt(h), <<>>, Drained(Function_instructions(h)))
  /\ UNCHANGED <<mlil, node, args, slot>>

BuildCalls ==
  {"expr", "append", "goto", "if_expr", "mark_label", "add_label_map", "add_operand_list"}

InitBuild ==
  /\ mlil = <<BuildFunction(<<>>, <<>>)>>
  /\ node = None
  /\ args = <<>>
  /\ out = NoQuery
  /\ slot = U64(0)

NextBuild ==
  \/ \E operation \in ExprOperations : Expr(1, operation)
  \/ \E expr \in Staged \cup {PyInt(0)} : AppendExpr(1, expr)
  \/ \E label \in LabelArgs \cup {None} : Goto(1, label)
  \/ \E operand \in LastStaged, label \in LabelArgs : IfExpr(1, operand, label)
  \/ \E label \in LabelArgs : MarkLabel(1, label)
  \/ \E labels \in LabelMaps : AddLabelMap(1, labels)
  \/ \E operand_list \in OperandLists : AddOperandList(1, operand_list)
  \/ Finalize(1)
  \/ \E i \in SetItemKeys, j \in LastStaged \cup {None} : SetItem(1, i, j)

SpecBuild == InitBuild /\ [][NextBuild]_vars

\* C11: an assignment function[i] = value raises, whatever the index and the
\* value and whether or not the function is finalized, and leaves the
\* records, the instructions and the basic block list as they were.
C11_SetItemRejected ==
  [][out'.q = "__setitem__" =>
       /\ Raised(out'.r)
       /\ mlil'[1].exprs = mlil[1].exprs
       /\ mlil'[1].instrs = mlil[1].instrs
       /\ mlil'[1].blocks = mlil[1].blocks]_vars

\* an assignment of a staged expression to an instruction of a finalized
\* function was rejected
C11_Witness ==
  /\ out.q = "__setitem__"
  /\ mlil[1].finalized
  /\ out.m[1] = PyInt(0)
  /\ out.m[2] \in LastStaged
  /\ Len(mlil[1].instrs) > 0
  /\ Raised(out.r)

(***************************************************************************)
(* The variable queries.  The engine's data flow answers the instructions  *)
(* that define a variable and the instructions that use it, in ascending   *)
(* order.                                                                  *)
(***************************************************************************)
RECURSIVE Ascending(_)
\* the sequence of a set of numbers in ascending order
Ascending(S) ==
  IF S = {} THEN <<>>
  ELSE LET least == CHOOSE x \in S : \A y \in S : x <= y
       IN  <<least>> \o Ascending(S \ {least})

\* the root record of an instruction
RootOf(h, i) == mlil[h].exprs[BNGetMediumLevelILIndexForInstruction(h, i) + 1]

\* the instructions that assign the variable
BNGetMediumLevelILVariableDefinitions(h, var) ==
  Ascending({i \in 0..(BNGetMediumLevelILInstructionCount(h) - 1) :
               /\ RootOf(h, i).operation \in SetVarOps
               /\ var \in Destinations(RootOf(h, i))})

\* the instructions that read the variable: at a leaf of the source of an
\* assignment, or of the instruction otherwise
BNGetMediumLevelILVariableUses(h, var) ==
  Ascending({i \in 0..(BNGetMediumLevelILInstructionCount(h) - 1) :
               IF RootOf(h, i).operation = "MLIL_SET_VAR"
               THEN var \in Leaves(h, RootOf(h, i).operands[2])
               ELSE var \in Leaves(h, BNGetMediumLevelILIndexForInstruction(h, i))})

\* result.append(self[instrs[i]]) for every index of the engine's answer
InstructionList(h, instrs) ==
  Drained([k \in 1..Len(instrs) |-> Function_getitem(h, PyInt(instrs[k]))])

\* MediumLevelILFunction.get_var_definitions
Function_get_var_definitions(h, var) ==
  InstructionList(h, BNGetMediumLevelILVariableDefinitions(h, var))

\* MediumLevelILFunction.get_var_uses: it asks the engine for the
\* definitions and returns; the statements that ask for the uses follow the
\* return
Function_get_var_uses(h, var) ==
  InstructionList(h, BNGetMediumLevelILVariableDefinitions(h, var))

\* the variables x, y and one the function does not name
VarArgs == {Variable_from_identifier(id) : id \in 1..3}

GetVarDefinitions(h, var) ==
  /\ out' = Asked("get_var_definitions", PyInt(h), var, Function_get_var_definitions(h, var))
  /\ UNCHANGED <<mlil, node, args, slot>>

GetVarUses(h, var) ==
  /\ out' = Asked("get_var_uses", PyInt(h), var, Function_get_var_uses(h, var))
  /\ UNCHANGED <<mlil, node, args, slot>>

(***************************************************************************)
(* The consumers of a finalized function.  The engine holds a function     *)
(* that a builder staged, appended and finalized.  Its expressions are     *)
(*   0: 5    1: goto    2: if (0)    3: x = 5    4: x    5: y = x          *)
(* each instruction is rooted at one of 1, 2, 3 and 5, and the label is    *)
(* marked at some instruction or not at all.                               *)
(***************************************************************************)
\* most instructions of such a function
MaxBlockInstrs == 3

BlockExprs ==
  << BuildRecord("MLIL_CONST", 4, <<5>>, {}),
     BuildRecord("MLIL_GOTO", 0, <<0>>, {}),
     BuildRecord("MLIL_IF", 0, <<0, 0, 0>>, {}),
     BuildRecord("MLIL_SET_VAR", 4, <<1, 0>>, {}),
     BuildRecord("MLIL_VAR", 4, <<1>>, {}),
     BuildRecord("MLIL_SET_VAR", 4, <<2, 4>>, {}) >>

\* the expressions that are roots of instructions
BlockRoots == {1, 2, 3, 5}

BlockFunctions ==
  UNION {Finalized([BuildFunction(BlockExprs, instrs) EXCEPT !.labels = [l \in Labels |-> mark]]) :
           instrs \in UNION {[1..n -> BlockRoots] : n \in 0..MaxBlockInstrs},
           mark \in {<<>>} \cup {<<i>> : i \in 0..MaxBlockInstrs}}

InitBlocks ==
  /\ mlil \in {<<f>> : f \in BlockFunctions}
  /\ node = None
  /\ args = <<>>
  /\ out = NoQuery
  /\ slot = U64(0)

NextBlocks ==
  \/ \E k \in DOMAIN Function_basic_blocks(1) : BlockIter(1, k)
  \/ \E k \in DOMAIN Function_basic_blocks(1) : BlockInstructionCount(1, k)
  \/ Instructions(1)
  \/ \E var \in VarArgs : GetVarDefinitions(1, var)
  \/ \E var \in VarArgs : GetVarUses(1, var)

SpecBlocks == InitBlocks /\ [][NextBlocks]_vars

\* the instruction indexes of the nodes of a list, in order
InstrIndexes(l) == [k \in 1..Len(l.v) |-> l.v[k].v.instr_index[1]]

\* every one of 0..n-1 occurs exactly once in the sequence of indexes
ExactlyOnce(idxs, n) ==
  /\ Len(idxs) = n
  /\ \A i \in 0..(n - 1) : \E k \in 1..n : idxs[k] = i

C13_BlockIterationReplays ==
  out.q = "block_iter" =>
    /\ ~Raised(out.r)
    /\ InstrIndexes(out.r) = Range(out.n.v.start, out.n.v.end)
    /\ Len(out.r.v) = Block_instruction_count(out.n).v
    /\ \A k \in 1..Len(out.r.v) :
         out.r.v[k] = Function_getitem(out.n.v.il_function, PyInt(out.n.v.start + k - 1))
    /\ node.t = "iteration" /\ node.v.block = out.n /\ node.v.result = out.r

\* a block of two instructions was iterated again
C13_Witness ==
  /\ out.q = "block_iter"
  /\ node.t = "iteration" /\ node.v.again
  /\ out.n.v.end - out.n.v.start = 2
  /\ Len(out.r.v) = 2
  /\ mlil[1].finalized

\* the empty block of a function without instructions was iterated
C13_WitnessEmpty ==
  /\ out.q = "block_iter"
  /\ out.n.v.start = out.n.v.end
  /\ out.r = PyList(<<>>)

\* C14: get_var_uses answers the nodes of exactly the instructions the
\* engine's variable uses query reports, and get_var_definitions those of
\* its variable definitions query.
C14_VarQueriesForwarded ==
  /\ out.q = "get_var_uses" =>
       /\ ~Raised(out.r)
       /\ InstrIndexes(out.r) = BNGetMediumLevelILVariableUses(out.n.v, out.m)
  /\ out.q = "get_var_definitions" =>
       /\ ~Raised(out.r)
       /\ InstrIndexes(out.r) = BNGetMediumLevelILVariableDefinitions(out.n.v, out.m)

(***************************************************************************)
(* variable.PossibleValueSet.  An instance is the map of its attributes;   *)
(* an attribute that was never assigned is Unset, and the property that    *)
(* returns it raises AttributeError.                                       *)
(***************************************************************************)
Unset == [t |-> "unset", v |-> 0]

Attributes ==
  {"_type", "_reg", "_value", "_offset", "_ranges", "_table", "_mapping", "_values",
   "_count"}

PySet(S) == [t |-> "set", v |-> S]
RegisterValueType(state) == [t |-> "RegisterValueType", v |-> state]
RegisterName(reg) == [t |-> "RegisterName", v |-> reg]
ValueRange(start, end, step) == [t |-> "ValueRange", v |-> <<start, end, step>>]
LookupTableEntry(from_values, to_value) ==
  [t |-> "LookupTableEntry", v |-> <<from_values, to_value>>]

Object(attrs) == [t |-> "PossibleValueSet", v |-> attrs]

\* a Python integer that holds a 64-bit value as it is
Unsigned(bound) == [neg |-> FALSE, mag |-> bound]

\* if bound & (1 << 63): bound |= ~((1 << 63) - 1), which makes a bound
\* with bit 63 set the negative number bound - 2^64
SignExtend63(bound) ==
  IF AndBit63(bound) = <<0, 0, 0, 0>> THEN Unsigned(bound)
  ELSE PySub(AndLow63(bound), AndBit63(bound))

\* PossibleValueSet.__init__(arch, value); value is None or the engine's
\* BNPossibleValueSet, arch is None or an architecture
PossibleValueSet(arch, value) ==
  LET new == [a \in Attributes |-> Unset]
  IN  IF value = None
      THEN Object([new EXCEPT !["_type"] = RegisterValueType("UndeterminedValue")])
      ELSE LET typed == [new EXCEPT !["_type"] = RegisterValueType(value.state),
                                    !["_count"] = PyInt(value.count)]
               ranges(signed) ==
                 PyList([i \in 1..value.count |->
                           ValueRange(IF signed THEN SignExtend63(value.ranges[i].start)
                                      ELSE Unsigned(value.ranges[i].start),
                                      IF signed THEN SignExtend63(value.ranges[i].end)
                                      ELSE Unsigned(value.ranges[i].end),
                                      value.ranges[i].step)])
           IN  Object(
                 CASE value.state = "EntryValue" ->
                        [typed EXCEPT !["_reg"] = IF arch = None THEN PyInt(value.value)
                                                  ELSE RegisterName(value.value)]
                   [] value.state \in {"ConstantValue", "ConstantPointerValue"} ->
                        [typed EXCEPT !["_value"] = PyInt(value.value)]
                   [] value.state = "StackFrameOffset" ->
                        [typed EXCEPT !["_offset"] = PyInt(value.value)]
                   [] value.state = "SignedRangeValue" ->
                        [typed EXCEPT !["_offset"] = PyInt(value.value),
                                      !["_ranges"] = ranges(TRUE)]
                   [] value.state = "UnsignedRangeValue" ->
                        [typed EXCEPT !["_offset"] = PyInt(value.value),
                                      !["_ranges"] = ranges(FALSE)]
                   [] value.state = "LookupTableValue" ->
                        [typed EXCEPT
                           !["_table"] =
                             PyList([i \in 1..value.count |->
                                       LookupTableEntry(value.table[i].fromValues,
                                                        value.table[i].toValue)]),
                           !["_mapping"] =
                             PyDict(UNION {{<<value.table[i].fromValues[j],
                                               value.table[i].toValue>> :
                                               j \in 1..Len(value.table[i].fromValues)} :
                                             i \in 1..value.count})]
                   [] value.state \in {"InSetOfValues", "NotInSetOfValues"} ->
                        [typed EXCEPT !["_values"] =
                                        PySet({value.valueSet[i] : i \in 1..value.count})]
                   [] OTHER -> typed)

\* result = PossibleValueSet() followed by the assignments of a static
\* constructor
Assigned(type, attrs) ==
  Object([a \in Attributes |->
            IF a = "_type" THEN RegisterValueType(type)
            ELSE IF a \in DOMAIN attrs THEN attrs[a]
            ELSE Unset])

PossibleValueSet_undetermined == PossibleValueSet(None, None)
PossibleValueSet_constant(value) == Assigned("ConstantValue", [_value |-> value])
PossibleValueSet_constant_ptr(value) == Assigned("ConstantPointerValue", [_value |-> value])
PossibleValueSet_stack_frame_offset(offset) ==
  Assigned("StackFrameOffset", [_offset |-> offset])
PossibleValueSet_signed_range_value(ranges) ==
  Assigned("SignedRangeValue",
           [_value |-> PyInt(0), _ranges |-> ranges, _count |-> PyInt(Len(ranges.v))])
PossibleValueSet_unsigned_range_value(ranges) ==
  Assigned("UnsignedRangeValue",
           [_value |-> PyInt(0), _ranges |-> ranges, _count |-> PyInt(Len(ranges.v))])
PossibleValueSet_in_set_of_values(values) ==
  Assigned("InSetOfValues",
           [_values |-> PySet({values.v[i] : i \in 1..Len(values.v)}),
            _count |-> PyInt(Len(values.v))])
PossibleValueSet_not_in_set_of_values(values) ==
  Assigned("NotInSetOfValues",
           [_values |-> PySet({values.v[i] : i \in 1..Len(values.v)}),
            _count |-> PyInt(Len(values.v))])
PossibleValueSet_lookup_table_value(lookup_table, mapping) ==
  Assigned("LookupTableValue", [_table |-> lookup_table, _mapping |-> mapping])

\* the properties type, reg, value, offset, ranges, table, mapping, values
\* and count: each returns the attribute of its name
Property(p, name) ==
  IF p.v["_" \o name] = Unset THEN Raise("AttributeError") ELSE p.v["_" \o name]

Fields == {"type", "reg", "value", "offset", "ranges", "table", "mapping", "values", "count"}

\* the engine's values: a state, a value and the lists of the state
EngineValue(state, value, ranges, table, valueSet) ==
  [state |-> state, value |-> value, ranges |-> ranges, table |-> table,
   valueSet |-> valueSet, count |-> Len(ranges) + Len(table) + Len(valueSet)]

EngineValues ==
  {EngineValue(state, 5, <<>>, <<>>, <<>>) :
     state \in {"UndeterminedValue", "EntryValue", "ConstantValue", "ConstantPointerValue",
                "StackFrameOffset", "ReturnAddressValue"}}
  \cup {EngineValue(state, 0, ranges, <<>>, <<>>) :
          state \in {"SignedRangeValue", "UnsignedRangeValue"},
          ranges \in {<<>>, <<[start |-> U64(0), end |-> U64(5), step |-> 1]>>,
                      <<[start |-> [k \in 1..4 |-> LimbBase - 1], end |-> U64(5),
                         step |-> 1]>>}}
  \cup {EngineValue("LookupTableValue", 0, <<>>, table, <<>>) :
          table \in {<<>>, <<[fromValues |-> <<1>>, toValue |-> 2]>>}}
  \cup {EngineValue(state, 0, <<>>, <<>>, valueSet) :
          state \in {"InSetOfValues", "NotInSetOfValues"}, valueSet \in {<<>>, <<7>>}}

Archs == {None, [t |-> "Architecture", v |-> 0]}

IntArgs == {PyInt(0), PyInt(5)}
RangeArgs == {PyList(<<>>), PyList(<<ValueRange(Unsigned(U64(0)), Unsigned(U64(5)), 1)>>)}
ValuesArgs == {PyList(<<>>), PyList(<<7>>)}
TableArgs == {<<PyList(<<>>), PyDict({})>>,
              <<PyList(<<LookupTableEntry(<<1>>, 2)>>), PyDict({<<1, 2>>})>>}

\* the client constructs an instance and holds it in node
Construct(call, arguments, instance) ==
  /\ node' = instance
  /\ out' = Asked(call, None, arguments, instance)
  /\ UNCHANGED <<mlil, args, slot>>

FromEngine(arch, value) == Construct("PossibleValueSet", <<arch, value>>, PossibleValueSet(arch, value))
Undetermined == Construct("undetermined", <<>>, PossibleValueSet_undetermined)
Constant(value) == Construct("constant", value, PossibleValueSet_constant(value))
ConstantPtr(value) == Construct("constant_ptr", value, PossibleValueSet_constant_ptr(value))
StackFrameOffset(offset) ==
  Construct("stack_frame_offset", offset, PossibleValueSet_stack_frame_offset(offset))
SignedRangeValue(ranges) ==
  Construct("signed_range_value", ranges, PossibleValueSet_signed_range_value(ranges))
UnsignedRangeValue(ranges) ==
  Construct("unsigned_range_value", ranges, PossibleValueSet_unsigned_range_value(ranges))
InSetOfValues(values) ==
  Construct("in_set_of_values", values, PossibleValueSet_in_set_of_values(values))
NotInSetOfValues(values) ==
  Construct("not_in_set_of_values", values, PossibleValueSet_not_in_set_of_values(values))
LookupTableValue(table, mapping) ==
  Construct("lookup_table_value", <<table, mapping>>,
            PossibleValueSet_lookup_table_value(table, mapping))

\* instance.name for a property of the class
ReadField(name) ==
  /\ node # None
  /\ out' = Asked("read", node, name, Property(node, name))
  /\ UNCHANGED <<mlil, node, args, slot>>

InitValues ==
  /\ mlil = <<>>
  /\ node = None
  /\ args = <<>>
  /\ out = NoQuery
  /\ slot = U64(0)

NextValues ==
  \/ \E arch \in Archs, value \in EngineValues \cup {None} : FromEngine(arch, value)
  \/ Undetermined
  \/ \E value \in IntArgs : Constant(value)
  \/ \E value \in IntArgs : ConstantPtr(value)
  \/ \E offset \in IntArgs : StackFrameOffset(offset)
  \/ \E ranges \in RangeArgs : SignedRangeValue(ranges)
  \/ \E ranges \in RangeArgs : UnsignedRangeValue(ranges)
  \/ \E values \in ValuesArgs : InSetOfValues(values)
  \/ \E values \in ValuesArgs : NotInSetOfValues(values)
  \/ \E t \in TableArgs : LookupTableValue(t[1], t[2])
  \/ \E name \in Fields : ReadField(name)

SpecValues == InitValues /\ [][NextValues]_vars

\* every instance the constructors of the model make
Instances ==
  {PossibleValueSet(arch, value) : arch \in Archs, value \in EngineValues \cup {None}}
  \cup {PossibleValueSet_constant(value) : value \in IntArgs}
  \cup {PossibleValueSet_constant_ptr(value) : value \in IntArgs}
  \cup {PossibleValueSet_stack_frame_offset(offset) : offset \in IntArgs}
  \cup {PossibleValueSet_signed_range_value(ranges) : ranges \in RangeArgs}
  \cup {PossibleValueSet_unsigned_range_value(ranges) : ranges \in RangeArgs}
  \cup {PossibleValueSet_in_set_of_values(values) : values \in ValuesArgs}
  \cup {PossibleValueSet_not_in_set_of_values(values) : values \in ValuesArgs}
  \cup {PossibleValueSet_lookup_table_value(t[1], t[2]) : t \in TableArgs}

\* C15: the tag of an instance decides which of its fields are populated,
\* however the instance was constructed: a field read succeeds on an
\* instance exactly if it succeeds on every other instance of the same tag;
\* on constant(5) reading ranges fails and reading value returns 5.
C15_FieldsFollowTag ==
  out.q = "read" =>
    /\ \A p \in Instances :
         p.v["_type"] = out.n.v["_type"] =>
           (Raised(Property(p, out.m)) <=> Raised(out.r))
    /\ out.n = PossibleValueSet_constant(PyInt(5)) =>
         /\ out.m = "ranges" => Raised(out.r)
         /\ out.m = "value" => out.r = PyInt(5)

LastInstructionIs(expr) ==
  LET k == BNGetMediumLevelILInstructionCount(1) - 1
  IN  /\ ~Raised(Function_getitem(1, PyInt(k)))
      /\ Function_getitem(1, PyInt(k)) = create(1, expr.v, <<k>>)

MaxBlockBytes == 3
MaxInstrLength == 2

Consumers == {1, 2}

BlockObject(starts, lengths) ==
  [t |-> "BasicBlock", v |-> [_instStarts |-> starts, _instLengths |-> lengths]]

Consumer(pc, op, i, ret, start, length, k, seen) ==
  [pc |-> pc, op |-> op, i |-> i, ret |-> ret, start |-> start, length |-> length,
   k |-> k, seen |-> seen]

Idle == Consumer("idle", "", 0, "", 0, 0, 0, <<>>)

\* view.get_instruction_length(addr)
get_instruction_length(addr) ==
  IF addr \in DOMAIN mlil.lengths THEN mlil.lengths[addr] ELSE 0

RECURSIVE Walk(_)
\* the (start, length) pairs of the instructions from an address to the end
\* of the block, up to the first invalid instruction
Walk(addr) ==
  IF addr >= mlil.end \/ get_instruction_length(addr) = 0 THEN <<>>
  ELSE <<<<addr, get_instruction_length(addr)>>>> \o Walk(addr + get_instruction_length(addr))

\* a consumer at rest calls instruction_count, block[i] or iter(block)
Call(t, op, i) ==
  /\ args[t].pc = "idle"
  /\ args' = [args EXCEPT ![t] =
                Consumer(IF op = "iter" THEN "iter_test" ELSE "build_test", op, i,
                         IF op = "getitem" THEN "getitem_start" ELSE "count_len",
                         0, 0, 0, <<>>)]
  /\ out' = [out EXCEPT ![t] = NoQuery]
  /\ UNCHANGED <<mlil, node, slot>>

\* the consumer moves to a position
Goto_pc(t, pc) == args' = [args EXCEPT ![t].pc = pc]

\* the consumer's method returns (or raises) a result
Return(t, result) ==
  /\ args' = [args EXCEPT ![t] = Idle]
  /\ out' = [out EXCEPT ![t] = Asked(args[t].op, PyInt(t), args[t].i, result)]

\* _buildStartCache going round its loop again at an invalid instruction
\* where the source leaves the loop
BuildStartCache_continue(t) ==
  LET c == args[t]
  IN  /\ out' = out /\ mlil' = mlil /\ slot' = slot
      /\ CASE c.pc = "build_test" ->
                /\ Goto_pc(t, IF node.v._instStarts = None THEN "build_starts" ELSE c.ret)
                /\ node' = node
           [] c.pc = "build_starts" ->
                /\ node' = [node EXCEPT !.v._instStarts = PyList(<<>>)]
                /\ Goto_pc(t, "build_lengths")
           [] c.pc = "build_lengths" ->
                /\ node' = [node EXCEPT !.v._instLengths = PyList(<<>>)]
                /\ args' = [args EXCEPT ![t].pc = "build_while", ![t].start = mlil.start]
           [] c.pc = "build_while" ->
                /\ Goto_pc(t, IF c.start < mlil.end THEN "build_length" ELSE c.ret)
                /\ node' = node
           [] c.pc = "build_length" ->
                /\ args' = [args EXCEPT
                              ![t].length = get_instruction_length(c.start),
                              ![t].pc = IF get_instruction_length(c.start) = 0
                                        THEN "build_while"
                                        ELSE "build_append_length"]
                /\ node' = node
           [] c.pc = "build_append_length" ->
                /\ node' = [node EXCEPT !.v._instLengths.v = Append(@, c.length)]
                /\ Goto_pc(t, "build_append_start")
           [] c.pc = "build_append_start" ->
                /\ node' = [node EXCEPT !.v._instStarts.v = Append(@, c.start)]
                /\ args' = [args EXCEPT ![t].pc = "build_while",
                                        ![t].start = c.start + c.length]
           [] OTHER -> FALSE

\* BasicBlock._buildStartCache, statement by statement
BuildStartCache(t) ==
  LET c == args[t]
  IN  /\ out' = out /\ mlil' = mlil /\ slot' = slot
      /\ CASE c.pc = "build_test" ->
                /\ Goto_pc(t, IF node.v._instStarts = None THEN "build_starts" ELSE c.ret)
                /\ node' = node
           [] c.pc = "build_starts" ->
                /\ node' = [node EXCEPT !.v._instStarts = PyList(<<>>)]
                /\ Goto_pc(t, "build_lengths")
           [] c.pc = "build_lengths" ->
                /\ node' = [node EXCEPT !.v._instLengths = PyList(<<>>)]
                /\ args' = [args EXCEPT ![t].pc = "build_while", ![t].start = mlil.start]
           [] c.pc = "build_while" ->
                /\ Goto_pc(t, IF c.start < mlil.end THEN "build_length" ELSE c.ret)
                /\ node' = node
           [] c.pc = "build_length" ->
                /\ args' = [args EXCEPT
                              ![t].length = get_instruction_length(c.start),
                              ![t].pc = IF get_instruction_length(c.start) = 0 THEN c.ret
                                        ELSE "build_append_length"]
                /\ node' = node
           [] c.pc = "build_append_length" ->
                /\ node' = [node EXCEPT !.v._instLengths.v = Append(@, c.length)]
                /\ Goto_pc(t, "build_append_start")
           [] c.pc = "build_append_start" ->
                /\ node' = [node EXCEPT !.v._instStarts.v = Append(@, c.start)]
                /\ args' = [args EXCEPT ![t].pc = "build_while",
                                        ![t].start = c.start + c.length]
           [] OTHER -> FALSE

\* BasicBlock.instruction_count after the call of _buildStartCache
InstructionCount(t) ==
  /\ args[t].pc = "count_len"
  /\ Return(t, PyInt(Len(node.v._instStarts.v)))
  /\ UNCHANGED <<mlil, node, slot>>

\* BasicBlock.__getitem__ after the call of _buildStartCache
BlockGetItem(t) ==
  LET c == args[t]
  IN  /\ UNCHANGED <<mlil, node, slot>>
      /\ CASE c.pc = "getitem_start" ->
                IF c.i < Len(node.v._instStarts.v)
                THEN /\ args' = [args EXCEPT ![t].pc = "getitem_length",
                                             ![t].start = node.v._instStarts.v[c.i + 1]]
                     /\ out' = out
                ELSE Return(t, Raise("IndexError"))
           [] c.pc = "getitem_length" ->
                IF c.i < Len(node.v._instLengths.v)
                THEN Return(t, <<c.start, node.v._instLengths.v[c.i + 1]>>)
                ELSE Return(t, Raise("IndexError"))
           [] OTHER -> FALSE

\* BasicBlock.__iter__, drained: without a cache it walks the block itself,
\* with one it pairs the starts with the lengths as far as both reach
BlockIterate(t) ==
  LET c == args[t]
  IN  /\ UNCHANGED <<mlil, node, slot>>
      /\ CASE c.pc = "iter_test" ->
                IF node.v._instStarts = None THEN Return(t, PyList(Walk(mlil.start)))
                ELSE IF node.v._instLengths = None THEN Return(t, Raise("AssertionError"))
                ELSE /\ args' = [args EXCEPT ![t].pc = "iter_next", ![t].k = 1]
                     /\ out' = out
           [] c.pc = "iter_next" ->
                IF c.k <= Len(node.v._instStarts.v) /\ c.k <= Len(node.v._instLengths.v)
                THEN /\ args' = [args EXCEPT
                                   ![t].k = c.k + 1,
                                   ![t].seen = Append(@, <<node.v._instStarts.v[c.k],
                                                           node.v._instLengths.v[c.k]>>)]
                     /\ out' = out
                ELSE Return(t, PyList(c.seen))
           [] OTHER -> FALSE

InitCache ==
  /\ mlil \in [start : {0}, end : {MaxBlockBytes},
               lengths : [0..(MaxBlockBytes - 1) -> 0..MaxInstrLength]]
  /\ node = BlockObject(None, None)
  /\ args = [t \in Consumers |-> Idle]
  /\ out = [t \in Consumers |-> NoQuery]
  /\ slot = U64(0)

NextCache ==
  \/ \E t \in Consumers : Call(t, "instruction_count", 0)
  \/ \E t \in Consumers, i \in 0..(MaxBlockBytes - 1) : Call(t, "getitem", i)
  \/ \E t \in Consumers : Call(t, "iter", 0)
  \/ \E t \in Consumers : BuildStartCache(t)
  \/ \E t \in Consumers : InstructionCount(t)
  \/ \E t \in Consumers : BlockGetItem(t)
  \/ \E t \in Consumers : BlockIterate(t)

SpecCache == InitCache /\ [][NextCache]_vars

\* what a call answers when no other consumer runs
Alone(q, i) ==
  LET all == Walk(mlil.start)
  IN  CASE q = "instruction_count" -> PyInt(Len(all))
        [] q = "getitem" -> IF i < Len(all) THEN all[i + 1] ELSE Raise("IndexError")
        [] q = "iter" -> PyList(all)

\* C19: concurrent read-only consumers of one basic block object each see
\* the block's complete instruction sequence: instruction_count, block[i]
\* and the iteration answer what they answer when the consumer runs alone,
\* and block[i] raises for no valid index.
C19_ConsumersSeeCompleteBlock ==
  \A t \in Consumers : out[t].q # "" => out[t].r = Alone(out[t].q, out[t].m)

(***************************************************************************)
(* The operand decoders called directly: node.get_int(i), node.get_var(i), *)
(* node.get_expr_list(i, j) and the others, with slot indexes the caller   *)
(* chooses.  A node keeps the five operand slots of the engine's record    *)
(* whatever its opcode; a list decoder asks the engine for the list of the *)
(* slot.                                                                   *)
(***************************************************************************)
MaxSlotArg == 5

SlotArgs == 0..MaxSlotArg

ListDecoders == {"int_list", "var_list", "var_ssa_list", "expr_list", "target_map"}

PairDecoders == {"var_ssa", "var_ssa_dest_and_src"}

Decoders ==
  {"expr", "int", "float", "var", "intrinsic"} \cup PairDecoders \cup ListDecoders

\* the slot indexes a decoder reads from self.instr.operands
SlotsRead(get, a, b) ==
  IF get \in ListDecoders THEN {} ELSE IF get \in PairDecoders THEN {a, b} ELSE {a}

\* node.get_<get>(a) or node.get_<get>(a, b): indexing the five-element
\* operands list past its end raises IndexError
CallDecoder(n, get, a, b) ==
  IF \E i \in SlotsRead(get, a, b) : i \notin 0..4 THEN Raise("IndexError")
  ELSE Decode(n, [get |-> get, a |-> a, b |-> b])

\* the client calls one decoder of the node
GetOperand(get, a, b) ==
  /\ node # None
  /\ out' = Asked("decode", node, <<get, a, b>>, CallDecoder(node.v, get, a, b))
  /\ UNCHANGED <<mlil, node, args, slot>>

\* the opcodes whose records the client decodes slot by slot: no operand, one
\* slot, slot pairs and triples, and each kind of list
SlotOps ==
  {"MLIL_NORET", "MLIL_CONST", "MLIL_FLOAT_CONST", "MLIL_SET_VAR", "MLIL_VAR_SSA",
   "MLIL_SET_VAR_ALIASED", "MLIL_CALL", "MLIL_VAR_PHI", "MLIL_JUMP_TO", "MLIL_INTRINSIC"}

SlotEngines ==
  UNION {{<<ShapeFunction(op, r)>> : r \in Fill(op, Schema(op))} : op \in SlotOps}

InitSlots ==
  /\ mlil \in SlotEngines
  /\ node = None
  /\ args = <<>>
  /\ out = NoQuery
  /\ slot = U64(0)

NextSlots ==
  \/ GetItem(1, PyInt(0))
  \/ \E get \in Decoders : \E a \in SlotArgs :
       \E b \in (IF get \in PairDecoders THEN SlotArgs ELSE {0}) : GetOperand(get, a, b)
  \/ Operands

SpecSlots == InitSlots /\ [][NextSlots]_vars

\* number of operand slots the schema of an opcode declares
SlotCount(op) == SchemaSlot(Schema(op), Len(Schema(op)) + 1)

\* a decoder call that reads a slot the opcode does not declare, or a list
\* the engine holds no entry for
OutsideRecord(n, call) ==
  \/ \E i \in SlotsRead(call[1], call[2], call[3]) : i >= SlotCount(n.instr.operation)
  \/ /\ call[1] \in ListDecoders
     /\ \/ call[2] >= SlotCount(n.instr.operation)
        \/ BNMediumLevelILGetOperandList(n.function, n.expr_index, call[2]) = None

\* C20: decoding an operand from a slot outside the opcode's declared arity,
\* or a list operand without a backing operand list, fails with an error, and
\* the operands of the node decode afterwards to what they decoded to before.
C20_OutsideDecodeFails ==
  [][(out'.q = "decode" /\ OutsideRecord(node.v, out'.m)) =>
       /\ Raised(out'.r)
       /\ operands(node.v)' = operands(node.v)]_vars

(***************************************************************************)
(* variable.py: CoreVariable, VariableNameAndType and Variable.            *)
(* A Variable is [function, var]: the function it belongs to and its       *)
(* CoreVariable.  The name and the type of a variable are kept by the      *)
(* function, looked up with the variable; mlil[f] is that table of         *)
(* function f, a function from identifiers to [name, type].                *)
(***************************************************************************)
\* largest variable index and storage of the variables of the model
MaxVarIndex == 1
MaxVarStorage == 1

\* enums.VariableSourceType: stack, register and flag variables
VariableSourceTypes == {0, 1, 2}

VarFunctions == {1, 2}

\* width of the index and of the storage field of an identifier
IndexSpan == MaxVarIndex + 2
StorageSpan == MaxVarStorage + 2

\* VariableSourceType(x): the member with the value x, ValueError without one
VariableSourceType(x) ==
  IF x.t = "int" /\ x.v \in VariableSourceTypes THEN x ELSE Raise("ValueError")

\* the dataclass CoreVariable(_source_type, index, storage)
CoreVariable(source_type, index, storage) ==
  [_source_type |-> source_type, index |-> index, storage |-> storage]

\* the dataclass VariableNameAndType(CoreVariable): the inherited fields come
\* first, so the constructor takes (_source_type, index, storage, name, type)
VariableNameAndType(a1, a2, a3, a4, a5) ==
  [t |-> "VariableNameAndType",
   v |-> [_source_type |-> a1, index |-> a2, storage |-> a3, name |-> a4, type |-> a5]]

\* the engine's BNVariable
BNVariable(type, index, storage) == [type |-> type, index |-> index, storage |-> storage]

\* core.BNToVariableIdentifier: one integer for the three fields
BNToVariableIdentifier(var) ==
  var.storage + StorageSpan * (var.index + IndexSpan * var.type)

\* core.BNFromVariableIdentifier: the three fields of an identifier
BNFromVariableIdentifier(identifier) ==
  BNVariable((identifier \div StorageSpan) \div IndexSpan,
             (identifier \div StorageSpan) % IndexSpan,
             identifier % StorageSpan)

\* CoreVariable.to_BNVariable: the fields of the ctypes structure take
\* integers only
IntFields(var) == var._source_type.t = "int" /\ var.index.t = "int" /\ var.storage.t = "int"

to_BNVariable(var) == BNVariable(var._source_type.v, var.index.v, var.storage.v)

\* CoreVariable.identifier
CoreVariable_identifier(var) ==
  IF ~IntFields(var) THEN Raise("TypeError")
  ELSE PyInt(BNToVariableIdentifier(to_BNVariable(var)))

\* Variable.__init__(func, source_type, index, storage)
Variable(func, source_type, index, storage) ==
  [t |-> "Variable", v |-> [function |-> func, var |-> CoreVariable(source_type, index, storage)]]

\* Variable.from_identifier(func, identifier)
Variable_of_identifier(func, identifier) ==
  LET var == BNFromVariableIdentifier(identifier)
      source_type == VariableSourceType(PyInt(var.type))
  IN  IF Raised(source_type) THEN source_type
      ELSE Variable(func, source_type, PyInt(var.index), PyInt(var.storage))

\* Variable.from_variable_name_and_type(func, var): var.type is read as the
\* source type
Variable_from_variable_name_and_type(func, var) ==
  LET source_type == VariableSourceType(var.v.type)
  IN  IF Raised(source_type) THEN source_type
      ELSE Variable(func, source_type, var.v.index, var.v.storage)

\* VariableNameAndType.from_identifier(identifier, name, type): the five
\* arguments are passed in the order (name, type, var.type, var.index,
\* var.storage)
VariableNameAndType_from_identifier(identifier, name, type) ==
  LET var == BNFromVariableIdentifier(identifier)
  IN  VariableNameAndType(name, type, PyInt(var.type), PyInt(var.index), PyInt(var.storage))

\* VariableNameAndType.from_core_variable(var, name, type): var.type is read
\* from a CoreVariable, whose fields are _source_type, index and storage
VariableNameAndType_from_core_variable(var, name, type) ==
  IF "type" \notin DOMAIN var THEN Raise("AttributeError")
  ELSE VariableNameAndType(name, type, var.type, var.index, var.storage)

\* the entry the function keeps for a variable
UserVar(v) ==
  LET identifier == CoreVariable_identifier(v.var)
  IN  mlil[v.function][identifier.v]

\* Variable.name: core.BNGetVariableName
Variable_name(v) ==
  IF ~IntFields(v.var) THEN Raise("TypeError") ELSE PyStr(UserVar(v).name)

\* Variable.type: core.BNGetVariableType, asserted to hold a type
Variable_type(v) ==
  IF ~IntFields(v.var) THEN Raise("TypeError")
  ELSE IF UserVar(v).type = None THEN Raise("AssertionError")
  ELSE UserVar(v).type

\* Function.create_user_var(var, var_type, name): the function's table after
\* the call
create_user_var(v, var_type, name) ==
  LET identifier == CoreVariable_identifier(v.var).v
  IN  [mlil EXCEPT ![v.function][identifier] = [name |-> name, type |-> var_type]]

\* Variable.var_name_and_type
Variable_var_name_and_type(v) ==
  LET name == Variable_name(v)
      type == Variable_type(v)
  IN  IF Raised(name) THEN name
      ELSE IF Raised(type) THEN type
      ELSE VariableNameAndType_from_core_variable(v.var, name, type)

\* Variable.__eq__(self, other): only the identifier is compared
Variable_eq_identifier(self, other) ==
  IF other.t # "Variable" THEN [t |-> "NotImplemented", v |-> 0]
  ELSE LET a == CoreVariable_identifier(self.v.var)
           b == CoreVariable_identifier(other.v.var)
       IN  IF Raised(a) THEN a ELSE IF Raised(b) THEN b
           ELSE PyBool(a = b)

\* Variable.__eq__(self, other): (identifier, function) tuples are compared
Variable_eq(self, other) ==
  IF other.t # "Variable" THEN [t |-> "NotImplemented", v |-> 0]
  ELSE LET a == CoreVariable_identifier(self.v.var)
           b == CoreVariable_identifier(other.v.var)
       IN  IF Raised(a) THEN a ELSE IF Raised(b) THEN b
           ELSE PyBool(<<a, self.v.function>> = <<b, other.v.function>>)

\* Variable.__hash__: hash((self.identifier)), the hash of the integer
Variable_hash(self) == CoreVariable_identifier(self.v.var)

(***************************************************************************)
(* The client of variable.py: it holds two Variable objects, compares and  *)
(* hashes them, assigns names and types and converts between the variable  *)
(* representations.                                                        *)
(***************************************************************************)
Type(name) == [t |-> "Type", v |-> name]

VarIdentifiers ==
  {BNToVariableIdentifier(BNVariable(s, i, o)) :
     s \in VariableSourceTypes, i \in 0..MaxVarIndex, o \in 0..MaxVarStorage}

\* the Variable objects the engine-facing code hands to a client
Variables == {Variable_of_identifier(f, id) : f \in VarFunctions, id \in VarIdentifiers}

NameArgs == {PyStr("a")}

TypeArgs == {Type("char")}

\* VariableNameAndType objects: made by the dataclass constructor and by
\* from_identifier
NamesAndTypes ==
  {VariableNameAndType(PyInt(s), PyInt(i), PyInt(0), PyStr("a"), Type("char")) :
     s \in VariableSourceTypes, i \in 0..MaxVarIndex}
    \cup {VariableNameAndType_from_identifier(id, PyStr("a"), Type("char")) :
            id \in VarIdentifiers}

\* a == b for two of the held variables
VarEq(i, j) ==
  /\ out' = Asked("eq", node[i], node[j], Variable_eq(node[i], node[j]))
  /\ UNCHANGED <<mlil, node, args, slot>>

\* hash(a)
VarHash(i) ==
  /\ out' = Asked("hash", node[i], None, Variable_hash(node[i]))
  /\ UNCHANGED <<mlil, node, args, slot>>

\* a.name = name (None is stored as ""); the type is read first
SetName(i, name) ==
  LET v == node[i].v
      type == Variable_type(v)
  IN  /\ mlil' = IF Raised(type) THEN mlil
                 ELSE create_user_var(v, type, IF name = None THEN "" ELSE name.v)
      /\ out' = Asked("name=", node[i], name, IF Raised(type) THEN type ELSE None)
      /\ UNCHANGED <<node, args, slot>>

\* a.type = new_type
SetType(i, new_type) ==
  LET v == node[i].v
  IN  /\ mlil' = create_user_var(v, new_type, Variable_name(v).v)
      /\ out' = Asked("type=", node[i], new_type, None)
      /\ UNCHANGED <<node, args, slot>>

\* a.var_name_and_type
VarNameAndType(i) ==
  /\ out' = Asked("var_name_and_type", node[i], None, Variable_var_name_and_type(node[i].v))
  /\ UNCHANGED <<mlil, node, args, slot>>

\* Variable.from_variable_name_and_type(func, var)
FromVariableNameAndType(func, var) ==
  /\ out' = Asked("from_variable_name_and_type", PyInt(func), var,
                  Variable_from_variable_name_and_type(func, var))
  /\ UNCHANGED <<mlil, node, args, slot>>

\* VariableNameAndType.from_identifier(identifier, name, type)
NameAndTypeFromIdentifier(identifier, name, type) ==
  /\ out' = Asked("from_identifier", PyInt(identifier), <<name, type>>,
                  VariableNameAndType_from_identifier(identifier, name, type))
  /\ UNCHANGED <<mlil, node, args, slot>>

\* the engine's table of a function before any assignment: function 1 has a
\* type for every variable, function 2 has none yet
NoUserVars ==
  [f \in VarFunctions |->
     [id \in VarIdentifiers |->
        [name |-> "var", type |-> IF f = 1 THEN Type("int32_t") ELSE None]]]

InitVars ==
  /\ mlil = NoUserVars
  /\ node \in Variables \X Variables
  /\ args = <<>>
  /\ out = NoQuery
  /\ slot = U64(0)

NextVars ==
  \/ \E i \in 1..2 : \E j \in 1..2 : VarEq(i, j)
  \/ \E i \in 1..2 : VarHash(i)
  \/ \E i \in 1..2 : \E name \in NameArgs : SetName(i, name)
  \/ \E i \in 1..2 : \E type \in TypeArgs : SetType(i, type)

SpecVars == InitVars /\ [][NextVars]_vars

\* the conversions, for one held variable
InitConvert ==
  /\ mlil = NoUserVars
  /\ node \in {<<v>> : v \in Variables}
  /\ args = <<>>
  /\ out = NoQuery
  /\ slot = U64(0)

NextConvert ==
  \/ \E name \in NameArgs : SetName(1, name)
  \/ \E type \in TypeArgs : SetType(1, type)
  \/ VarNameAndType(1)
  \/ \E f \in VarFunctions : \E var \in NamesAndTypes : FromVariableNameAndType(f, var)
  \/ \E id \in VarIdentifiers : NameAndTypeFromIdentifier(id, PyStr("a"), Type("char"))

SpecConvert == InitConvert /\ [][NextConvert]_vars

\* two variables of the same function with the same source type, index and
\* storage
SameIdentity(a, b) ==
  /\ a.v.function = b.v.function
  /\ a.v.var._source_type = b.v.var._source_type
  /\ a.v.var.index = b.v.var.index
  /\ a.v.var.storage = b.v.var.storage

\* C21: two Variables compare equal exactly when they belong to the same
\* function and have the same (source type, index, storage); equal Variables
\* have equal hashes; and this is so after any name or type assignments.
C21_EqualIffSameTriple ==
  /\ out.q = "eq" => out.r = PyBool(SameIdentity(out.n, out.m))
  /\ \A i \in 1..2 : \A j \in 1..2 :
       /\ Variable_eq(node[i], node[j]) = PyBool(SameIdentity(node[i], node[j]))
       /\ SameIdentity(node[i], node[j]) => Variable_hash(node[i]) = Variable_hash(node[j])

\* the two variables are distinct objects of one identity, one was renamed
\* and retyped, and they still compare equal
C21_Witness ==
  /\ out.q = "eq" /\ out.n = node[1] /\ out.m = node[2]
  /\ out.r = PyBool(TRUE)
  /\ UserVar(node[1].v) = [name |-> "a", type |-> Type("char")]

(***************************************************************************)
(* prefix_operands and postfix_operands: the operands of the expression    *)
(* tree of a node, with an (operation, size) marker for every node that    *)
(* the traversal enters.                                                   *)
(***************************************************************************)
MediumLevelILOperationAndSize(operation, size) ==
  [t |-> "MediumLevelILOperationAndSize", v |-> <<operation, size>>]

RECURSIVE Extended(_, _, _)
\* the result list after the loop over the operands from the k-th on: a node
\* operand extends the list by its own traversal, any other operand is
\* appended as it is
Extended(result, items, traversals) ==
  IF items = <<>> THEN PyList(result)
  ELSE LET operand == Head(items)
       IN  IF operand.t = "instr"
           THEN LET sub == Head(traversals)
                IN  IF Raised(sub) THEN sub
                    ELSE Extended(result \o sub.v, Tail(items), Tail(traversals))
           ELSE Extended(Append(result, operand), Tail(items), Tail(traversals))

RECURSIVE prefix_operands(_)
\* MediumLevelILInstruction.prefix_operands
prefix_operands(n) ==
  LET ops == operands(n)
      marker == MediumLevelILOperationAndSize(n.instr.operation, n.instr.size)
  IN  IF Raised(ops) THEN ops
      ELSE Extended(<<marker>>, ops.v,
                    [k \in 1..Len(ops.v) |->
                       IF ops.v[k].t = "instr" THEN prefix_operands(ops.v[k].v) ELSE None])

RECURSIVE postfix_operands(_)
\* MediumLevelILInstruction.postfix_operands
postfix_operands(n) ==
  LET ops == operands(n)
      marker == MediumLevelILOperationAndSize(n.instr.operation, n.instr.size)
      result == IF Raised(ops) THEN ops
                ELSE Extended(<<>>, ops.v,
                              [k \in 1..Len(ops.v) |->
                                 IF ops.v[k].t = "instr" THEN postfix_operands(ops.v[k].v)
                                 ELSE None])
  IN  IF Raised(result) THEN result ELSE PyList(Append(result.v, marker))

\* node.prefix_operands
PrefixOperands ==
  /\ node # None
  /\ out' = Asked("prefix_operands", node, None, prefix_operands(node.v))
  /\ UNCHANGED <<mlil, node, args, slot>>

\* node.postfix_operands
PostfixOperands ==
  /\ node # None
  /\ out' = Asked("postfix_operands", node, None, postfix_operands(node.v))
  /\ UNCHANGED <<mlil, node, args, slot>>

InitTree ==
  /\ mlil \in ExampleEngines
  /\ node = None
  /\ args = <<>>
  /\ out = NoQuery
  /\ slot = U64(0)

NextTree ==
  \/ \E h \in Handles : \E e \in 0..(ExprCount(h) - 1) : Create(h, e, <<>>)
  \/ \E h \in Handles : \E i \in InstrArgs(h) : GetItem(h, PyInt(i))
  \/ PrefixOperands
  \/ PostfixOperands

SpecTree == InitTree /\ [][NextTree]_vars

RECURSIVE SumOver(_, _)
SumOver(f, S) ==
  IF S = {} THEN 0 ELSE LET x == CHOOSE y \in S : TRUE IN f[x] + SumOver(f, S \ {x})

RECURSIVE TreeSize(_, _)
\* number of nodes of the expression tree below an expression, by the schema
\* of its records: sub-expressions and the members of expression lists
TreeSize(h, e) ==
  LET rec == mlil[h].exprs[e + 1]
      schema == Schema(rec.operation)
      below == [k \in 1..Len(schema) |->
                  CASE schema[k][2] = "expr" ->
                         TreeSize(h, rec.operands[SchemaSlot(schema, k) + 1])
                    [] schema[k][2] = "expr_list" ->
                         LET l == BNMediumLevelILGetOperandList(h, e, SchemaSlot(schema, k)).v
                         IN  SumOver([j \in 1..Len(l) |-> TreeSize(h, l[j])], 1..Len(l))
                    [] OTHER -> 0]
  IN  1 + SumOver(below, 1..Len(schema))

IsMarker(x) == x.t = "MediumLevelILOperationAndSize"

\* the entries of a traversal that are not markers, in order
LeafValues(l) == SelectSeq(l, LAMBDA x : ~IsMarker(x))

\* C22: prefix_operands and postfix_operands flatten the whole expression
\* tree: one marker for every node of the tree, also for the nodes reached
\* through expression lists, no nested list and no node left in the result;
\* the marker of the node comes first in prefix order and last in postfix
\* order, and both hold the same leaf values in the same order.
C22_TraversalsFlattenTree ==
  out.q \in {"prefix_operands", "postfix_operands"} =>
    /\ out.r.t = "list"
    /\ \A k \in 1..Len(out.r.v) : out.r.v[k].t \notin {"list", "instr"}
    /\ Cardinality({k \in 1..Len(out.r.v) : IsMarker(out.r.v[k])})
         = TreeSize(out.n.v.function, out.n.v.expr_index)
    /\ LET marker == MediumLevelILOperationAndSize(out.n.v.instr.operation, out.n.v.instr.size)
       IN  IF out.q = "prefix_operands" THEN out.r.v[1] = marker
           ELSE out.r.v[Len(out.r.v)] = marker
    /\ LeafValues(prefix_operands(out.n.v).v) = LeafValues(postfix_operands(out.n.v).v)

\* the slot decoded by the property that carries the name of the k-th operand
\* of the schema of an opcode
PropertySlot(op, k) == Prop(op, Schema(op)[k][1]).a

\* C23: each named operand of a node is decoded from the slot its schema
\* position assigns, so two sub-expression operands of one node never read
\* the same slot; for MLIL_SYSCALL_UNTYPED output is decoded from slot 0,
\* params from slot 1 and stack from slot 2, as for MLIL_SYSCALL_UNTYPED_SSA.
C23_OperandsReadSchemaSlots ==
  node # None =>
    LET op == node.v.instr.operation
        schema == Schema(op)
    IN  /\ \A k \in 1..Len(schema) : PropertySlot(op, k) = SchemaSlot(schema, k)
        /\ \A j \in 1..Len(schema) : \A k \in 1..Len(schema) :
             (j # k /\ schema[j][2] = "expr" /\ schema[k][2] = "expr")
               => PropertySlot(op, j) # PropertySlot(op, k)
        /\ op \in {"MLIL_SYSCALL_UNTYPED", "MLIL_SYSCALL_UNTYPED_SSA"} =>
             /\ [k \in 1..3 |-> schema[k][1]] = <<"output", "params", "stack">>
             /\ [k \in 1..3 |-> PropertySlot(op, k)] = <<0, 1, 2>>

\* C25: for a function with n instructions, function[i] returns a node
\* exactly when -n <= i < n and raises IndexError otherwise, as it does for a
\* slice or a tuple; a negative i gives the instruction n + i; the node
\* carries the normalised instruction index and the root expression of that
\* instruction.
C25_GetItemInRangeOnly ==
  (out.q = "getitem" /\ out.m.t \in {"int", "slice"}) =>
    LET h == out.n.v
        n == BNGetMediumLevelILInstructionCount(h)
        i == out.m.v
        k == IF i < 0 THEN n + i ELSE i
    IN  IF out.m.t = "int" /\ 0 - n <= i /\ i < n
        THEN /\ out.r.t = "instr"
             /\ out.r.v.function = h
             /\ out.r.v.instr_index = <<k>>
             /\ out.r.v.expr_index = mlil[h].instrs[k + 1]
             /\ out.r = Function_getitem(h, PyInt(k))
        ELSE out.r = Raise("IndexError")

\* function[-1] returned the last instruction
C25_Witness ==
  /\ out.q = "getitem" /\ out.m = PyInt(-1)
  /\ out.r.t = "instr"
  /\ out.r.v.instr_index = <<BNGetMediumLevelILInstructionCount(out.n.v) - 1>>

(***************************************************************************)
(* MediumLevelILBasicBlock.__getitem__ and __contains__ on the blocks of a *)
(* finalized function.                                                     *)
(***************************************************************************)
\* MediumLevelILBasicBlock.__getitem__(idx)
Block_getitem(block, idx) ==
  LET size == block.v.end - block.v.start
  IN  IF idx > size \/ idx < -size THEN Raise("IndexError")
      ELSE IF idx >= 0 THEN Function_getitem(block.v.il_function, PyInt(idx + block.v.start))
      ELSE Function_getitem(block.v.il_function, PyInt(block.v.end + idx))

\* core.BNGetMediumLevelILBasicBlockForInstruction: the block that holds the
\* instruction, None without one
BNGetMediumLevelILBasicBlockForInstruction(h, i) ==
  LET blocks == BNGetMediumLevelILBasicBlockList(h)
      holds == {k \in 1..Len(blocks) : blocks[k].start <= i /\ i < blocks[k].end}
  IN  IF holds = {} THEN None ELSE blocks[CHOOSE k \in holds : TRUE]

\* MediumLevelILInstruction.il_basic_block
il_basic_block(n) ==
  LET core_block == BNGetMediumLevelILBasicBlockForInstruction(n.function, n.instr_index[1])
  IN  IF core_block = None THEN Raise("AssertionError")
      ELSE MediumLevelILBasicBlock(n.function, core_block)

\* an instance of the class MediumLevelILInstruction itself, made with the
\* fields of a decoded node; a decoded node is an instance of the class the
\* registry holds for its opcode
BaseInstance(n) == [t |-> "MediumLevelILInstruction", v |-> n.v]

\* MediumLevelILBasicBlock.__contains__(instruction)
Block_contains(block, instruction) ==
  IF instruction.t # "MediumLevelILInstruction" THEN PyBool(FALSE)
  ELSE LET other == il_basic_block(instruction.v)
       IN  IF Raised(other) THEN other
           ELSE IF other # block THEN PyBool(FALSE)
           ELSE PyBool(instruction.v.instr_index[1] >= block.v.start
                         /\ instruction.v.instr_index[1] <= block.v.end)

\* block[idx]
ILBlockGetItem(h, k, idx) ==
  LET block == Function_basic_blocks(h)[k]
  IN  /\ out' = Asked("block_getitem", block, PyInt(idx), Block_getitem(block, idx))
      /\ UNCHANGED <<mlil, node, args, slot>>

\* instruction in block, for an instruction of the function
ILBlockContains(h, k, i, base) ==
  LET block == Function_basic_blocks(h)[k]
      decoded == Function_getitem(h, PyInt(i))
      instruction == IF base THEN BaseInstance(decoded) ELSE decoded
  IN  /\ out' = Asked("contains", block, instruction, Block_contains(block, instruction))
      /\ UNCHANGED <<mlil, node, args, slot>>

NextIndex ==
  \/ \E k \in DOMAIN Function_basic_blocks(1) :
       \E idx \in (0 - MaxBlockInstrs - 1)..(MaxBlockInstrs + 1) : ILBlockGetItem(1, k, idx)
  \/ \E k \in DOMAIN Function_basic_blocks(1) :
       \E i \in 0..(BNGetMediumLevelILInstructionCount(1) - 1) :
         \E base \in BOOLEAN : ILBlockContains(1, k, i, base)

SpecIndex == InitBlocks /\ [][NextIndex]_vars

\* C24: block[idx] returns the instruction start + idx for 0 <= idx < size,
\* the instruction end + idx for -size <= idx < 0, and raises IndexError for
\* every other idx, idx = size included; a returned node is an instruction
\* of the block.
C24_BlockGetItemStaysInBlock ==
  out.q = "block_getitem" =>
    LET start == out.n.v.start
        end == out.n.v.end
        size == end - start
        idx == out.m.v
    IN  /\ (0 <= idx /\ idx < size) =>
             out.r.t = "instr" /\ out.r.v.instr_index = <<start + idx>>
        /\ (0 - size <= idx /\ idx < 0) =>
             out.r.t = "instr" /\ out.r.v.instr_index = <<end + idx>>
        /\ (idx >= size \/ idx < 0 - size) => out.r = Raise("IndexError")
        /\ out.r.t = "instr" =>
             start <= out.r.v.instr_index[1] /\ out.r.v.instr_index[1] < end

\* C26: 'instruction in block' is true exactly for the decoded nodes of the
\* block's function whose instruction index i satisfies start <= i < end.
C26_ContainsExactlyOwnInstructions ==
  (out.q = "contains" /\ out.m.t = "instr") =>
    out.r = PyBool(/\ out.m.v.function = out.n.v.il_function
                   /\ out.n.v.start <= out.m.v.instr_index[1]
                   /\ out.m.v.instr_index[1] < out.n.v.end)

(***************************************************************************)
(* PossibleValueSet.__eq__ for two instances.                              *)
(***************************************************************************)
\* self.<name> == other.<name>: either read may raise AttributeError
SameField(self, other, name) ==
  LET a == Property(self, name)
      b == Property(other, name)
  IN  IF Raised(a) THEN a ELSE IF Raised(b) THEN b ELSE PyBool(a = b)

\* PossibleValueSet.__eq__(self, other): the last branch evaluates
\* self == other again, with the same operands, until the interpreter's
\* recursion limit raises RecursionError
PossibleValueSet_eq(self, other) ==
  LET type == self.v["_type"].v
  IN  IF type \in {"ConstantValue", "ConstantPointerValue"} /\ other.t = "int"
      THEN PyBool(Property(self, "value") = other)
      ELSE IF other.t # "PossibleValueSet" THEN [t |-> "NotImplemented", v |-> 0]
      ELSE CASE type \in {"ConstantValue", "ConstantPointerValue"} ->
                  SameField(self, other, "value")
             [] type = "StackFrameOffset" -> SameField(self, other, "offset")
             [] type \in {"SignedRangeValue", "UnsignedRangeValue"} ->
                  SameField(self, other, "ranges")
             [] type \in {"InSetOfValues", "NotInSetOfValues"} ->
                  SameField(self, other, "values")
             [] type = "UndeterminedValue" -> PyBool(self.v["_type"] = other.v["_type"])
             [] OTHER -> Raise("RecursionError")

\* a == b and b == a for the two instances the client holds
ValueEq(i, j) ==
  /\ out' = Asked("value_eq", node[i], node[j], PossibleValueSet_eq(node[i], node[j]))
  /\ UNCHANGED <<mlil, node, args, slot>>

InitEq ==
  /\ mlil = <<>>
  /\ node \in Instances \X Instances
  /\ args = <<>>
  /\ out = NoQuery
  /\ slot = U64(0)

NextEq == \E i \in 1..2 : \E j \in 1..2 : ValueEq(i, j)

SpecEq == InitEq /\ [][NextEq]_vars

\* C27: for two PossibleValueSet instances a and b of any tags, a == b
\* terminates with a boolean, equals b == a, and is true only when a and b
\* have the same tag.
C27_EqTerminatesSymmetric ==
  out.q = "value_eq" =>
    /\ out.r.t = "bool"
    /\ out.r = PossibleValueSet_eq(out.m, out.n)
    /\ out.r = PyBool(TRUE) => out.n.v["_type"] = out.m.v["_type"]

(***************************************************************************)
(* RegisterValue.from_BNRegisterValue: the value classes are dataclasses   *)
(* with the fields value, offset, type and confidence (EntryRegisterValue  *)
(* adds reg); each class sets the default of type.                         *)
(***************************************************************************)
\* core.max_confidence
max_confidence == [t |-> "max_confidence", v |-> 0]

RegisterValueClass(cls, value, offset, type, confidence, reg) ==
  [t |-> cls,
   v |-> [value |-> value, offset |-> offset, type |-> RegisterValueType(type),
          confidence |-> confidence, reg |-> reg]]

EntryRegisterValue(value, reg, confidence) ==
  RegisterValueClass("EntryRegisterValue", value, PyInt(0), "EntryValue", confidence, reg)
ConstantRegisterValue(value, confidence) ==
  RegisterValueClass("ConstantRegisterValue", value, PyInt(0), "ConstantValue", confidence, Unset)
ConstantPointerRegisterValue(value, confidence) ==
  RegisterValueClass("ConstantPointerRegisterValue", value, PyInt(0), "ConstantPointerValue",
                     confidence, Unset)
StackFrameOffsetRegisterValue(value, offset, confidence) ==
  RegisterValueClass("StackFrameOffsetRegisterValue", value, offset, "StackFrameOffset",
                     confidence, Unset)
ImportedAddressRegisterValue(value, confidence) ==
  RegisterValueClass("ImportedAddressRegisterValue", value, PyInt(0), "ImportedAddressValue",
                     confidence, Unset)
UndeterminedRegisterValue ==
  RegisterValueClass("Undetermined", PyInt(0), PyInt(0), "UndeterminedValue", max_confidence,
                     Unset)

\* the engine's BNRegisterValue, or BNRegisterValueWithConfidence when
\* confidence is not Unset
BNRegisterValue(state, value, offset, confidence) ==
  [state |-> state, value |-> value, offset |-> offset, confidence |-> confidence]

\* RegisterValue.from_BNRegisterValue(reg_value, arch)
from_BNRegisterValue(reg_value, arch) ==
  LET confidence == IF reg_value.confidence = Unset THEN max_confidence
                    ELSE reg_value.confidence
  IN  IF reg_value.state = "EntryValue"
      THEN EntryRegisterValue(PyInt(reg_value.value),
                              IF arch # None THEN RegisterName(reg_value.value) ELSE None,
                              confidence)
      ELSE IF reg_value.state = "ConstantValue"
      THEN ConstantRegisterValue(PyInt(reg_value.value), confidence)
      ELSE IF reg_value.state = "ConstantValue"
      THEN ConstantPointerRegisterValue(PyInt(reg_value.value), confidence)
      ELSE IF reg_value.state = "StackFrameOffset"
      THEN StackFrameOffsetRegisterValue(PyInt(reg_value.value), PyInt(reg_value.offset),
                                         confidence)
      ELSE IF reg_value.state = "ImportedAddressValue"
      THEN ImportedAddressRegisterValue(PyInt(reg_value.value), confidence)
      ELSE IF reg_value.state = "UndeterminedValue" THEN UndeterminedRegisterValue
      ELSE Raise("AssertionError")

\* the states of enums.RegisterValueType an engine value may carry
RegisterValueStates ==
  {"UndeterminedValue", "EntryValue", "ConstantValue", "ConstantPointerValue",
   "StackFrameOffset", "ReturnAddressValue", "ImportedAddressValue",
   "SignedRangeValue", "UnsignedRangeValue", "LookupTableValue", "InSetOfValues",
   "NotInSetOfValues"}

BNRegisterValues ==
  {BNRegisterValue(state, value, offset, confidence) :
     state \in RegisterValueStates, value \in {0, 5}, offset \in {0, 8},
     confidence \in {Unset, PyInt(0)}}

\* RegisterValue.from_BNRegisterValue(reg_value, arch) called by the client
FromBNRegisterValue(reg_value, arch) ==
  /\ out' = Asked("from_BNRegisterValue", reg_value, arch, from_BNRegisterValue(reg_value, arch))
  /\ UNCHANGED <<mlil, node, args, slot>>

NextRegs == \E reg_value \in BNRegisterValues : \E arch \in Archs : FromBNRegisterValue(reg_value, arch)

SpecRegs == InitValues /\ [][NextRegs]_vars

\* the class from_BNRegisterValue is to answer with for a state it handles
HandledStates ==
  [EntryValue |-> "EntryRegisterValue", ConstantValue |-> "ConstantRegisterValue",
   ConstantPointerValue |-> "ConstantPointerRegisterValue",
   StackFrameOffset |-> "StackFrameOffsetRegisterValue",
   ImportedAddressValue |-> "ImportedAddressRegisterValue",
   UndeterminedValue |-> "Undetermined"]

\* C28: from_BNRegisterValue answers, for each of the states EntryValue,
\* ConstantValue, ConstantPointerValue, StackFrameOffset, ImportedAddressValue
\* and UndeterminedValue, with an instance of the class of that state and
\* never fails; the type of the result is the state of the input.
C28_StateMapsToItsClass ==
  (out.q = "from_BNRegisterValue" /\ out.n.state \in DOMAIN HandledStates) =>
    /\ out.r.t = HandledStates[out.n.state]
    /\ out.r.v.type = RegisterValueType(out.n.state)

\* C29: for every Variable v, v.var_name_and_type is a VariableNameAndType
\* with the source type, index and storage of v and with v's name and type,
\* and Variable.from_variable_name_and_type makes of it a Variable equal to
\* v; VariableNameAndType.from_identifier(id, name, type) has the source
\* type, index and storage that id encodes.
C29_ConversionsKeepIdentity ==
  /\ (out.q = "var_name_and_type" /\ ~Raised(Variable_type(out.n.v))) =>
       /\ out.r.t = "VariableNameAndType"
       /\ out.r.v = [_source_type |-> out.n.v.var._source_type,
                     index |-> out.n.v.var.index, storage |-> out.n.v.var.storage,
                     name |-> Variable_name(out.n.v), type |-> Variable_type(out.n.v)]
       /\ LET back == Variable_from_variable_name_and_type(out.n.v.function, out.r)
          IN  back.t = "Variable" /\ Variable_eq(back, out.n) = PyBool(TRUE)
  /\ out.q = "from_identifier" =>
       LET var == BNFromVariableIdentifier(out.n.v)
       IN  /\ out.r.v._source_type = PyInt(var.type)
           /\ out.r.v.index = PyInt(var.index)
           /\ out.r.v.storage = PyInt(var.storage)
           /\ out.r.v.name = out.m[1]
           /\ out.r.v.type = out.m[2]

(***************************************************************************)
(* One consumer of a basic block: the calls of the single-threaded,        *)
(* synchronous model, each running to its return before the next begins.   *)
(* Consumer 1 makes the calls; the block, the engine and the statements    *)
(* of the methods are those of the shared block above.                     *)
(***************************************************************************)
NextAlone ==
  \/ Call(1, "instruction_count", 0)
  \/ \E i \in 0..(MaxBlockBytes - 1) : Call(1, "getitem", i)
  \/ Call(1, "iter", 0)
  \/ BuildStartCache(1)
  \/ InstructionCount(1)
  \/ BlockGetItem(1)
  \/ BlockIterate(1)

SpecAlone == InitCache /\ [][NextAlone]_vars

\* a call that has begun runs on: the statements of _buildStartCache and the
\* return of instruction_count are taken whenever they are the next ones
SpecAloneFair ==
  /\ SpecAlone
  /\ WF_vars(BuildStartCache(1))
  /\ WF_vars(InstructionCount(1))

\* the positions inside _buildStartCache
BuildPositions ==
  {"build_test", "build_starts", "build_lengths", "build_while", "build_length",
   "build_append_length", "build_append_start"}

\* the cache has been built and the consumer is no longer building it
CacheBuilt == node.v._instStarts # None /\ args[1].pc \notin BuildPositions

\* the starts and lengths of the cache form one chain from the block's start
CacheChained ==
  LET starts == node.v._instStarts.v
      lengths == node.v._instLengths.v
  IN  /\ node.v._instLengths # None
      /\ Len(starts) = Len(lengths)
      /\ Len(starts) > 0 => starts[1] = mlil.start
      /\ \A k \in 1..(Len(starts) - 1) : starts[k + 1] = starts[k] + lengths[k]
      /\ \A k \in 1..Len(starts) : mlil.start <= starts[k] /\ starts[k] < mlil.end

\* C30: for every block and every assignment of instruction lengths, 0 for
\* an invalid instruction included, building the instruction start cache
\* terminates; afterwards the start and length lists are equally long, the
\* first start is the block's start, each next start is the previous start
\* plus the previous length, every start lies in [start, end), and
\* instruction_count is the number of cached starts.
C30_BuildTerminatesCacheChained ==
  /\ (args[1].pc = "build_test") ~> (args[1].pc \notin BuildPositions)
  /\ [](CacheBuilt => CacheChained)
  /\ [](out[1].q = "instruction_count"
          => /\ CacheBuilt
             /\ out[1].r = PyInt(Len(node.v._instStarts.v)))

\* instruction_count has answered 2 for a block whose third instruction is
\* invalid before the block's end
C30_Witness ==
  /\ out[1].q = "instruction_count"
  /\ out[1].r = PyInt(2)
  /\ CacheBuilt
  /\ LET starts == node.v._instStarts.v
         lengths == node.v._instLengths.v
     IN  /\ Len(starts) = 2
         /\ starts[2] + lengths[2] < mlil.end
         /\ get_instruction_length(starts[2] + lengths[2]) = 0

====
